---------------------------- MODULE Spec2Model ----------------------------
(***************************************************************************)
(* Context Bridge: the bounded event log (ringBuffer.ts), the activity     *)
(* recorder (eventLog.ts), the phase classifier (phaseDetection.ts), the   *)
(* ambient-state polls (polledState.ts), the assembler and the formatter   *)
(* (contextAssembly.ts), and the assembleContext command (extension.ts,    *)
(* httpClient.ts).                                                         *)
(***************************************************************************)
EXTENDS Integers, Sequences, FiniteSets, TLC

\* ------------------------------------------------------------------ bounds
MaxCapacity == 3        \* ring-buffer capacities 1..MaxCapacity are explored
MaxPushes == 4          \* pushes per run of the bare ring buffer
MaxLogCapacity == 2     \* capacities 1..MaxLogCapacity of the recorder's buffer
MaxLogEvents == 3       \* events appended per run of the recorder
MaxLogEdits == 1        \* edit notifications per run of the recorder with every handler
MaxEdits == 3           \* edit notifications per run of the debounce scenario
MaxChanges == 1         \* contentChanges.length of one edit notification
MaxLogTicks == 2        \* clock advances per run of the whole recorder
MaxTicks == 3           \* clock advances per run of the debounce alone
MaxWindow == 5          \* events in a window handed to the classifier
MaxCommandTicks == 1    \* clock advances per run of the assembleContext command
MaxHostDiagnostics == 3 \* diagnostics the host reports to a poll
MaxDiagnosticsInContext == 2   \* configured maxDiagnosticsInContext, 1..this
MaxBundleErrors == 11   \* errors in a bundle handed to the formatter
MaxBundleWarnings == 6  \* warnings in such a bundle
MaxBundleTabs == 16     \* open tabs in such a bundle
MaxBundleBreakpoints == 11     \* breakpoints in such a bundle
MaxBundleEvents == 2    \* events in such a bundle

\* ------------------------------------------------------- program constants
DEFAULT_BUFFER_SIZE == 200
TEXT_CHANGE_DEBOUNCE_MS == 2000

DEFAULT_MAX_DIAGNOSTICS == 50

Null == "null"
None == <<>>       \* null / undefined where the value would be an object
Uris == {"a.ts", "b.ts"}

VARIABLES
  buffer,            \* RingBuffer.buffer: slot array, indices 0..capacity-1
  head,              \* RingBuffer.head: write cursor
  count,             \* RingBuffer.count: live count
  capacity,          \* RingBuffer.capacity
  returned,          \* value returned by the last read operation
  lastOp,            \* name and arguments of the last operation performed
  pushed,            \* history: every item pushed since construction / clear
  lastActiveUri,     \* EventLog.lastActiveUri
  textChangeTimers,  \* EventLog.textChangeTimers: resource id -> timer handle
  disposables,       \* EventLog.disposables: the live subscriptions
  pc,                \* lifecycle of the recorder: constructed, started, disposed
  clock,             \* Date.now()
  timerQueue,        \* host: pending setTimeout callbacks, handle -> closure
  activeTextEditor,  \* host: vscode.window.activeTextEditor (a resource id or Null)
  burst,             \* history: per resource, the edits since its last text_change
  appended,          \* history: number of events the recorder has appended
  editsLeft,         \* host: edit notifications still to come in this run
  ticksLeft,         \* host: clock advances still to come in this run
  window,            \* the events handed to detectPhase
  host,              \* host: what the polls, the configuration and the network answer
  cmdPc,             \* position of the ctxbridge.assembleContext command
  bundle,            \* the ContextBundle of the command, or its rejection
  formatted,         \* the text formatBundleForLLM returned to the command
  clipboard,         \* host: vscode.env.clipboard
  shown,             \* host: the notifications shown, oldest first
  requests,          \* host: the POST requests sent, oldest first
  output             \* host: the lines of the "Context Bridge" output channel

asmVars == <<host, cmdPc, bundle, formatted, clipboard, shown, requests, output>>
rbVars == <<buffer, head, count, capacity>>
elVars == <<lastActiveUri, textChangeTimers, disposables, pc, clock, timerQueue,
            activeTextEditor, burst, appended, editsLeft, ticksLeft, window, asmVars>>
vars == <<buffer, head, count, capacity, returned, lastOp, pushed,
          lastActiveUri, textChangeTimers, disposables, pc, clock, timerQueue,
          activeTextEditor, burst, appended, editsLeft, ticksLeft, window, asmVars>>

\* a host with nothing open, no git provider and no endpoint configured
QuietHost ==
  [failing |-> "none", git |-> "missing", selectionEmpty |-> TRUE,
   diagnostics |-> <<>>, maxDiagnosticsInContext |-> DEFAULT_MAX_DIAGNOSTICS,
   tabs |-> <<>>, breakpoints |-> <<>>, endpoint |-> "",
   response |-> [kind |-> "response", statusCode |-> 200],
   eventBufferSize |-> [type |-> "undefined"]]

\* the command has not been invoked: nothing assembled, copied, shown or sent
CommandIdle ==
  /\ cmdPc = "idle"
  /\ bundle = None
  /\ formatted = <<>>
  /\ clipboard = <<>>
  /\ shown = <<>>
  /\ requests = <<>>
  /\ output = <<>>

\* ------------------------------------------------------------- RingBuffer
undefined == [kind |-> "undefined"]

Min(a, b) == IF a < b THEN a ELSE b

\* new Array(capacity)
NewArray(cap) == [i \in 0..(cap - 1) |-> undefined]

\* JavaScript numbers: NaN stands apart from the indices and counts, which are
\* never negative; arithmetic on it gives NaN and comparisons with it are false
NaN == -1
Plus(a, b) == IF a = NaN \/ b = NaN THEN NaN ELSE a + b
Remainder(a, n) == IF a = NaN \/ n = NaN \/ n = 0 THEN NaN ELSE a % n
LessThan(a, b) == a # NaN /\ b # NaN /\ a < b
\* arr[i] = item: a slot of the array, or a new property of it
Store(arr, i, item) ==
  IF i \in DOMAIN arr THEN [arr EXCEPT ![i] = item] ELSE (i :> item) @@ arr

\* push(item) that counts every push
push_countAlways(item) ==
  /\ buffer' = [buffer EXCEPT ![head] = item]
  /\ head' = (head + 1) % capacity
  /\ count' = count + 1
  /\ UNCHANGED capacity

\* push(item): overwrite the slot under the cursor, advance, count up to capacity
push(item) ==
  /\ buffer' = Store(buffer, head, item)
  /\ head' = Remainder(Plus(head, 1), capacity)
  /\ count' = IF LessThan(count, capacity) THEN count + 1 ELSE count
  /\ UNCHANGED capacity

\* toArray() with a start index that ignores the cursor
toArray_startZero ==
  IF count = 0 THEN <<>>
  ELSE [i \in 1..count |-> buffer[(i - 1) % capacity]]

\* toArray(): oldest first
toArray ==
  IF count = 0 THEN <<>>
  ELSE LET start == IF count < capacity THEN 0 ELSE head
       IN [i \in 1..count |-> buffer[(start + (i - 1)) % capacity]]

\* Array.prototype.filter with the predicate of since(): a left-to-right scan
RECURSIVE filterSince(_, _)
filterSince(arr, cutoff) ==
  IF arr = <<>> THEN <<>>
  ELSE IF Head(arr).timestamp >= cutoff
       THEN <<Head(arr)>> \o filterSince(Tail(arr), cutoff)
       ELSE filterSince(Tail(arr), cutoff)

\* since() with an exclusive boundary
since_exclusive(ms, now) ==
  LET cutoff == now - ms
  IN SelectSeq(toArray, LAMBDA item : item.timestamp > cutoff)

\* since(ms, now)
since(ms, now) ==
  LET cutoff == now - ms
  IN filterSince(toArray, cutoff)

\* clear()
clear ==
  /\ buffer' = NewArray(capacity)
  /\ head' = 0
  /\ count' = 0
  /\ UNCHANGED capacity

size == count
maxSize == capacity

\* ------------------------------------------- the bare ring buffer (SpecRB)
RBTimestamps == {1000, 2000, 3000}
RBWindows == {0, 1000, 5000}
RBNows == {3000, 4000}

NoBurst == [n |-> 0, ops |-> 0, last |-> 0]

InitRB ==
  /\ capacity \in 1..MaxCapacity
  /\ buffer = NewArray(capacity)
  /\ head = 0
  /\ count = 0
  /\ returned = <<>>
  /\ lastOp = [op |-> "new"]
  /\ pushed = <<>>
  /\ lastActiveUri = Null
  /\ textChangeTimers = <<>>
  /\ disposables = {}
  /\ pc = "constructed"
  /\ clock = 0
  /\ timerQueue = {}
  /\ activeTextEditor = Null
  /\ burst = [u \in Uris |-> NoBurst]
  /\ appended = 0
  /\ editsLeft = 0
  /\ ticksLeft = 0
  /\ window = <<>>
  /\ host = QuietHost
  /\ CommandIdle

RB_push ==
  /\ Len(pushed) < MaxPushes
  /\ \E ts \in RBTimestamps :
       LET item == [kind |-> "item", timestamp |-> ts, value |-> Len(pushed) + 1]
       IN /\ push(item)
          /\ pushed' = Append(pushed, item)
          /\ lastOp' = [op |-> "push", item |-> item]
  /\ UNCHANGED <<returned, elVars>>

RB_toArray ==
  /\ returned' = toArray
  /\ lastOp' = [op |-> "toArray"]
  /\ UNCHANGED <<rbVars, pushed, elVars>>

RB_since ==
  /\ \E ms \in RBWindows, now \in RBNows :
       /\ returned' = since(ms, now)
       /\ lastOp' = [op |-> "since", ms |-> ms, now |-> now]
  /\ UNCHANGED <<rbVars, pushed, elVars>>

RB_clear ==
  /\ clear
  /\ pushed' = <<>>
  /\ lastOp' = [op |-> "clear"]
  /\ UNCHANGED <<returned, elVars>>

NextRB == RB_push \/ RB_toArray \/ RB_since \/ RB_clear

SpecRB == InitRB /\ [][NextRB]_vars

\* ------------------------------------------------- the host (vscode, timers)
Subscriptions ==
  {"onDidChangeActiveTextEditor", "onDidSaveTextDocument", "onDidStartDebugSession",
   "onDidTerminateDebugSession", "onDidChangeDiagnostics",
   "onDidStartTerminalShellExecution", "onDidEndTerminalShellExecution",
   "onDidChangeTextDocument", "onDidChangeBreakpoints"}

TickSteps == {1000}
Editors == Uris \cup {Null}
LanguageIdOf(uri) == IF uri = Null THEN Null ELSE "typescript"
\* command lines are sequences of characters
NpmTest == <<"n", "p", "m", " ", "t", "e", "s", "t">>
GitLogLatest ==
  <<"G", "I", "T", " ", " ", "L", "o", "g", " ", "l", "a", "t", "e", "s", "t">>

CommandLines == {NpmTest}
SavedDocuments == {"a.ts"}
ExitCodes == {0}
\* vscode.languages.getDiagnostics(), flattened to the severities it holds
DiagnosticSnapshots == {<<"Error", "Warning", "Information", "Error">>}

\* setTimeout(callback, delay): the handle of a callback due at now + delay
setTimeout(closure, delay) == [closure EXCEPT !.due = clock + delay]

\* clearTimeout that cancels nothing
clearTimeout_noop(queue, handle) == queue

\* clearTimeout(handle)
clearTimeout(queue, handle) == queue \ {handle}

Restrict(f, S) == [x \in S |-> f[x]]

\* ---------------------------------------------------------------- EventLog
\* constructor: the buffer of the configured size, lastActiveUri seeded from
\* the editor active at that time
Init ==
  /\ capacity \in 1..MaxLogCapacity
  /\ buffer = NewArray(capacity)
  /\ head = 0
  /\ count = 0
  /\ activeTextEditor \in Editors
  /\ lastActiveUri = activeTextEditor
  /\ textChangeTimers = <<>>
  /\ disposables = {}
  /\ pc = "constructed"
  /\ clock = 0
  /\ timerQueue = {}
  /\ returned = <<>>
  /\ lastOp = [op |-> "new"]
  /\ pushed = <<>>
  /\ burst = [u \in Uris |-> NoBurst]
  /\ appended = 0
  /\ editsLeft = MaxLogEdits
  /\ ticksLeft = MaxLogTicks
  /\ window = <<>>
  /\ host = QuietHost
  /\ CommandIdle

\* start(): subscribe the nine handlers
start ==
  /\ pc = "constructed"
  /\ disposables' = Subscriptions
  /\ pc' = "started"
  /\ lastOp' = [op |-> "start"]
  /\ UNCHANGED <<rbVars, returned, pushed, lastActiveUri, textChangeTimers, clock,
                 timerQueue, activeTextEditor, burst, appended, editsLeft,
                 ticksLeft, window, asmVars>>

Raised == pc \in {"started", "disposed"}
CanAppend == appended < MaxLogEvents

\* this.buffer.push(event), and the history of it
append(event) ==
  /\ push(event)
  /\ appended' = appended + 1
  /\ UNCHANGED pushed

\* a notification no handler is subscribed to
undelivered(name) ==
  /\ name \notin disposables
  /\ lastOp' = [op |-> name, delivered |-> FALSE, appended |-> 0]
  /\ UNCHANGED <<rbVars, returned, pushed, lastActiveUri, textChangeTimers,
                 disposables, pc, clock, timerQueue, burst, appended, editsLeft,
                 ticksLeft, window, asmVars>>

\* a deduplication that lets every notification through
isRepeatedResource_never(toUri) == FALSE

\* if (toUri === this.lastActiveUri) { return; }
isRepeatedResource(toUri) == toUri = lastActiveUri

\* 1. file switches, deduplicated on the remembered resource
onDidChangeActiveTextEditor ==
  /\ Raised
  /\ \E editor \in Editors :
       /\ activeTextEditor' = editor
       /\ \/ undelivered("onDidChangeActiveTextEditor")
          \/ /\ "onDidChangeActiveTextEditor" \in disposables
             /\ LET toUri == editor
                    toLang == LanguageIdOf(editor)
                IN IF isRepeatedResource(toUri)
                   THEN /\ lastOp' = [op |-> "onDidChangeActiveTextEditor", delivered |-> TRUE,
                                      appended |-> 0]
                        /\ UNCHANGED <<rbVars, pushed, lastActiveUri, appended>>
                   ELSE /\ CanAppend
                        /\ append([kind |-> "file_switch", timestamp |-> clock,
                                   fromUri |-> lastActiveUri, toUri |-> toUri,
                                   toLanguageId |-> toLang])
                        /\ lastActiveUri' = toUri
                        /\ lastOp' = [op |-> "onDidChangeActiveTextEditor", delivered |-> TRUE,
                                      appended |-> 1]
             /\ UNCHANGED <<returned, textChangeTimers, disposables, pc, clock,
                            timerQueue, burst, editsLeft, ticksLeft, window, asmVars>>

\* a handler that drops a notification of the kind appended last
immediate_filtered(name, event) ==
  \/ /\ undelivered(name)
     /\ UNCHANGED activeTextEditor
  \/ /\ name \in disposables
     /\ CanAppend
     /\ IF count > 0 /\ toArray[Len(toArray)].kind = event.kind
          THEN /\ lastOp' = [op |-> name, delivered |-> TRUE, appended |-> 0]
               /\ UNCHANGED <<rbVars, pushed, appended>>
          ELSE /\ append(event)
               /\ lastOp' = [op |-> name, delivered |-> TRUE, appended |-> 1]
     /\ UNCHANGED <<returned, lastActiveUri, textChangeTimers, disposables, pc, clock,
                    timerQueue, activeTextEditor, burst, editsLeft, ticksLeft, window, asmVars>>

\* a handler that appends one event per notification
immediate(name, event) ==
  \/ /\ undelivered(name)
     /\ UNCHANGED activeTextEditor
  \/ /\ name \in disposables
     /\ CanAppend
     /\ append(event)
     /\ lastOp' = [op |-> name, delivered |-> TRUE, appended |-> 1]
     /\ UNCHANGED <<returned, lastActiveUri, textChangeTimers, disposables, pc, clock,
                    timerQueue, activeTextEditor, burst, editsLeft, ticksLeft, window, asmVars>>

\* 2. saves
onDidSaveTextDocument ==
  /\ Raised
  /\ \E doc \in SavedDocuments :
       immediate("onDidSaveTextDocument",
                 [kind |-> "file_save", timestamp |-> clock, uri |-> doc,
                  languageId |-> LanguageIdOf(doc)])

\* 3. debug sessions
onDidStartDebugSession ==
  /\ Raised
  /\ immediate("onDidStartDebugSession",
               [kind |-> "debug_start", timestamp |-> clock,
                sessionName |-> "Launch", sessionType |-> "node"])

onDidTerminateDebugSession ==
  /\ Raised
  /\ immediate("onDidTerminateDebugSession",
               [kind |-> "debug_stop", timestamp |-> clock,
                sessionName |-> "Launch", sessionType |-> "node"])

CountSeverity(diags, severity) == Cardinality({i \in 1..Len(diags) : diags[i] = severity})

\* 4. diagnostics: the global totals at the time of the notification
onDidChangeDiagnostics ==
  /\ Raised
  /\ \E allDiags \in DiagnosticSnapshots :
       immediate("onDidChangeDiagnostics",
                 [kind |-> "diagnostic_change", timestamp |-> clock, uris |-> <<"a.ts">>,
                  totalErrors |-> CountSeverity(allDiags, "Error"),
                  totalWarnings |-> CountSeverity(allDiags, "Warning")])

\* 5. terminal command execution
onDidStartTerminalShellExecution ==
  /\ Raised
  /\ \E commandLine \in CommandLines :
       immediate("onDidStartTerminalShellExecution",
                 [kind |-> "terminal_command_start", timestamp |-> clock,
                  commandLine |-> commandLine, terminalName |-> "bash"])

onDidEndTerminalShellExecution ==
  /\ Raised
  /\ \E commandLine \in CommandLines, exitCode \in ExitCodes :
       immediate("onDidEndTerminalShellExecution",
                 [kind |-> "terminal_command_end", timestamp |-> clock,
                  commandLine |-> commandLine, terminalName |-> "bash",
                  exitCode |-> exitCode])

\* a lookup that finds the timer of any resource: one timer for the whole log
textChangeTimers_get_shared(uri) ==
  IF DOMAIN textChangeTimers = {} THEN {}
  ELSE {textChangeTimers[CHOOSE u \in DOMAIN textChangeTimers : TRUE]}

\* this.textChangeTimers.get(uri): the timer stored for the resource, if any
textChangeTimers_get(uri) ==
  IF uri \in DOMAIN textChangeTimers THEN {textChangeTimers[uri]} ELSE {}

\* 6. text changes: (re)arm the resource's debounce timer
onDidChangeTextDocument ==
  /\ Raised
  /\ \E uri \in Uris, contentChanges \in 0..MaxChanges :
       \/ /\ undelivered("onDidChangeTextDocument")
          /\ UNCHANGED activeTextEditor
       \/ /\ "onDidChangeTextDocument" \in disposables
          /\ IF contentChanges = 0
             THEN /\ lastOp' = [op |-> "onDidChangeTextDocument", delivered |-> TRUE,
                                appended |-> 0, contentChanges |-> 0]
                  /\ UNCHANGED <<textChangeTimers, timerQueue, burst, editsLeft>>
             ELSE LET existing == textChangeTimers_get(uri)
                      cleared == IF existing # {}
                                 THEN clearTimeout(timerQueue, CHOOSE t \in existing : TRUE)
                                 ELSE timerQueue
                      changeCount == contentChanges
                      handle == setTimeout([uri |-> uri, changeCount |-> changeCount,
                                            due |-> 0], TEXT_CHANGE_DEBOUNCE_MS)
                  IN /\ editsLeft > 0
                     /\ editsLeft' = editsLeft - 1
                     /\ timerQueue' = cleared \cup {handle}
                     /\ textChangeTimers' = (uri :> handle) @@ textChangeTimers
                     /\ burst' = [burst EXCEPT ![uri] = [n |-> @.n + 1,
                                                         ops |-> @.ops + contentChanges,
                                                         last |-> clock]]
                     /\ lastOp' = [op |-> "onDidChangeTextDocument", delivered |-> TRUE,
                                   appended |-> 0, contentChanges |-> contentChanges]
          /\ UNCHANGED <<rbVars, returned, pushed, lastActiveUri, disposables, pc, clock,
                         activeTextEditor, appended, ticksLeft, window, asmVars>>

\* a record stamped with the time of the edit that armed the timer
textChangeEvent_stampedAtEdit(timer) ==
  [kind |-> "text_change", timestamp |-> timer.due - TEXT_CHANGE_DEBOUNCE_MS,
   uri |-> timer.uri, changeCount |-> timer.changeCount]

\* the record the callback pushes: stamped when it runs, counts from its closure
textChangeEvent(timer) ==
  [kind |-> "text_change", timestamp |-> clock, uri |-> timer.uri,
   changeCount |-> timer.changeCount]

\* the debounce callback: runs no earlier than the timer is due
textChangeTimeout ==
  /\ \E timer \in timerQueue :
       /\ clock >= timer.due
       /\ CanAppend
       /\ append(textChangeEvent(timer))
       /\ textChangeTimers' = Restrict(textChangeTimers,
                                       DOMAIN textChangeTimers \ {timer.uri})
       /\ timerQueue' = timerQueue \ {timer}
       /\ burst' = [burst EXCEPT ![timer.uri] = NoBurst]
       /\ lastOp' = [op |-> "textChangeTimeout", appended |-> 1,
                     coalesced |-> burst[timer.uri].n]
  /\ UNCHANGED <<returned, lastActiveUri, disposables, pc, clock, activeTextEditor,
                 editsLeft, ticksLeft, window, asmVars>>

\* 7. breakpoint changes
onDidChangeBreakpoints ==
  /\ Raised
  /\ immediate("onDidChangeBreakpoints",
               [kind |-> "breakpoint_change", timestamp |-> clock,
                added |-> 1, removed |-> 0, changed |-> 0])

\* all(): every event in the buffer
all == toArray

\* dispose() that leaves the pending timers armed
dispose_keepTimers ==
  /\ pc = "started"
  /\ disposables' = {}
  /\ textChangeTimers' = <<>>
  /\ pc' = "disposed"
  /\ lastOp' = [op |-> "dispose"]
  /\ UNCHANGED <<rbVars, returned, pushed, lastActiveUri, clock, activeTextEditor,
                 appended, editsLeft, ticksLeft, burst, timerQueue, window, asmVars>>

\* dispose(): release the subscriptions, cancel the pending timers
dispose ==
  /\ pc = "started"
  /\ disposables' = {}
  /\ timerQueue' = timerQueue \ {textChangeTimers[u] : u \in DOMAIN textChangeTimers}
  /\ textChangeTimers' = <<>>
  /\ pc' = "disposed"
  /\ lastOp' = [op |-> "dispose"]
  /\ UNCHANGED <<rbVars, returned, pushed, lastActiveUri, clock, activeTextEditor,
                 appended, editsLeft, ticksLeft, burst, window, asmVars>>

\* time passes
Tick ==
  /\ ticksLeft > 0
  /\ ticksLeft' = ticksLeft - 1
  /\ \E ms \in TickSteps : clock' = clock + ms
  /\ lastOp' = [op |-> "Tick"]
  /\ UNCHANGED <<rbVars, returned, pushed, lastActiveUri, textChangeTimers, disposables,
                 pc, timerQueue, activeTextEditor, burst, appended, editsLeft, window, asmVars>>

Next ==
  \/ start
  \/ onDidChangeActiveTextEditor
  \/ onDidSaveTextDocument
  \/ onDidStartDebugSession
  \/ onDidTerminateDebugSession
  \/ onDidChangeDiagnostics
  \/ onDidStartTerminalShellExecution
  \/ onDidEndTerminalShellExecution
  \/ onDidChangeTextDocument
  \/ textChangeTimeout
  \/ onDidChangeBreakpoints
  \/ dispose
  \/ Tick

Spec == Init /\ [][Next]_vars

\* the debounce scenario: the host raises edit and save notifications only
InitDebounce ==
  /\ capacity \in 1..MaxLogCapacity
  /\ buffer = NewArray(capacity)
  /\ head = 0
  /\ count = 0
  /\ activeTextEditor \in Editors
  /\ lastActiveUri = activeTextEditor
  /\ textChangeTimers = <<>>
  /\ disposables = {}
  /\ pc = "constructed"
  /\ clock = 0
  /\ timerQueue = {}
  /\ returned = <<>>
  /\ lastOp = [op |-> "new"]
  /\ pushed = <<>>
  /\ burst = [u \in Uris |-> NoBurst]
  /\ appended = 0
  /\ editsLeft = MaxEdits
  /\ ticksLeft = MaxTicks
  /\ window = <<>>
  /\ host = QuietHost
  /\ CommandIdle

NextDebounce ==
  \/ start
  \/ onDidSaveTextDocument
  \/ onDidChangeTextDocument
  \/ textChangeTimeout
  \/ dispose
  \/ Tick

SpecDebounce == InitDebounce /\ [][NextDebounce]_vars

\* -------------------------------------------------------- phaseDetection
UpperCase == <<"A", "B", "C", "D", "E", "F", "G", "H", "I", "J", "K", "L", "M",
               "N", "O", "P", "Q", "R", "S", "T", "U", "V", "W", "X", "Y", "Z">>
LowerCase == <<"a", "b", "c", "d", "e", "f", "g", "h", "i", "j", "k", "l", "m",
               "n", "o", "p", "q", "r", "s", "t", "u", "v", "w", "x", "y", "z">>
Digits == {"0", "1", "2", "3", "4", "5", "6", "7", "8", "9"}

\* the /i flag: compare case-folded characters
CaseFold ==
  [c \in {UpperCase[k] : k \in 1..26} |->
     LowerCase[CHOOSE k \in 1..26 : UpperCase[k] = c]]
ToLower(c) == IF c \in DOMAIN CaseFold THEN CaseFold[c] ELSE c

\* \w and \s
WordChars ==
  {LowerCase[k] : k \in 1..26} \cup {UpperCase[k] : k \in 1..26} \cup Digits \cup {"_"}
IsWordChar(c) == c \in WordChars
IsSpace(c) == c \in {" ", "\t", "\n"}

\* \b at position i (between s[i-1] and s[i])
WordBoundary(s, i) ==
  LET before == i >= 2 /\ i - 1 <= Len(s) /\ IsWordChar(s[i - 1])
      after == i >= 1 /\ i <= Len(s) /\ IsWordChar(s[i])
  IN before # after

\* a pattern is a sequence of parts: a literal (lower-case characters) or \s+
WS == <<"\\s+">>

\* the positions at which a match of parts, begun at position i, can end
RECURSIVE MatchEnds(_, _, _)
MatchEnds(s, i, parts) ==
  IF parts = <<>> THEN {i}
  ELSE LET part == Head(parts)
           ends == IF part = WS
                   THEN {j \in (i + 1)..(Len(s) + 1) :
                           \A k \in i..(j - 1) : IsSpace(s[k])}
                   ELSE IF /\ i + Len(part) - 1 <= Len(s)
                           /\ \A k \in 1..Len(part) : ToLower(s[i + k - 1]) = part[k]
                        THEN {i + Len(part)}
                        ELSE {}
       IN UNION {MatchEnds(s, j, Tail(parts)) : j \in ends}

\* RegExp.test for /\b(alt1|alt2|...)\b/i
RegexTest(alternatives, s) ==
  \E i \in 1..(Len(s) + 1) :
    /\ WordBoundary(s, i)
    /\ \E alt \in alternatives : \E j \in MatchEnds(s, i, alt) : WordBoundary(s, j)

Word ==
  [test |-> <<"t", "e", "s", "t">>,
   jest |-> <<"j", "e", "s", "t">>,
   mocha |-> <<"m", "o", "c", "h", "a">>,
   pytest |-> <<"p", "y", "t", "e", "s", "t">>,
   cargo |-> <<"c", "a", "r", "g", "o">>,
   npm |-> <<"n", "p", "m">>,
   run |-> <<"r", "u", "n">>,
   git |-> <<"g", "i", "t">>,
   blame |-> <<"b", "l", "a", "m", "e">>,
   log |-> <<"l", "o", "g">>,
   diff |-> <<"d", "i", "f", "f">>,
   show |-> <<"s", "h", "o", "w">>,
   annotate |-> <<"a", "n", "n", "o", "t", "a", "t", "e">>]

\* /\b(test|jest|mocha|pytest|cargo\s+test|npm\s+test|npm\s+run\s+test)\b/i
TestCommandPattern ==
  {<<Word.test>>, <<Word.jest>>, <<Word.mocha>>, <<Word.pytest>>, <<Word.cargo, WS, Word.test>>,
   <<Word.npm, WS, Word.test>>, <<Word.npm, WS, Word.run, WS, Word.test>>}

\* /\bgit\s+(blame|log|diff|show|annotate)\b/i
GitHistoryPattern ==
  {<<Word.git, WS, Word.blame>>, <<Word.git, WS, Word.log>>, <<Word.git, WS, Word.diff>>,
   <<Word.git, WS, Word.show>>, <<Word.git, WS, Word.annotate>>}

\* a filter that looks at the events after the first one only
filterKind_skipFirst(events, kind) ==
  IF events = <<>> THEN <<>>
  ELSE SelectSeq(Tail(events), LAMBDA e : e.kind = kind)

\* events.filter(e => e.kind === kind)
RECURSIVE filterKind(_, _)
filterKind(events, kind) ==
  IF events = <<>> THEN <<>>
  ELSE IF Head(events).kind = kind
       THEN <<Head(events)>> \o filterKind(Tail(events), kind)
       ELSE filterKind(Tail(events), kind)

\* the two patterns, applied once to each command line the terminal can run
TerminalLines == {NpmTest, GitLogLatest}
TestCommandRegex == [s \in TerminalLines |-> RegexTest(TestCommandPattern, s)]
\* a history pattern that takes one blank, not \s+, between git and the verb
GitHistoryRegex_singleSpace ==
  [s \in TerminalLines |->
     RegexTest({<<Word.git, <<" ">>, verb>> :
                  verb \in {Word.blame, Word.log, Word.diff, Word.show, Word.annotate}}, s)]

GitHistoryRegex == [s \in TerminalLines |-> RegexTest(GitHistoryPattern, s)]

\* terminalCmds.filter(e => regex.test(e.commandLine))
RECURSIVE filterCommands(_, _)
filterCommands(cmds, regex) ==
  IF cmds = <<>> THEN <<>>
  ELSE IF regex[Head(cmds).commandLine]
       THEN <<Head(cmds)>> \o filterCommands(Tail(cmds), regex)
       ELSE filterCommands(Tail(cmds), regex)

\* Set.add: insertion order kept, a value already present stays where it is
SetAdd(set, value) ==
  IF \E k \in 1..Len(set) : set[k] = value THEN set ELSE Append(set, value)

Truthy(uri) == uri # Null /\ uri # ""

\* the two loops that fill uniqueFiles: the file switches, then the text changes
RECURSIVE addSwitchFiles(_, _)
addSwitchFiles(set, fileSwitches) ==
  IF fileSwitches = <<>> THEN set
  ELSE LET e == Head(fileSwitches)
           s1 == IF Truthy(e.fromUri) THEN SetAdd(set, e.fromUri) ELSE set
           s2 == IF Truthy(e.toUri) THEN SetAdd(s1, e.toUri) ELSE s1
       IN addSwitchFiles(s2, Tail(fileSwitches))

RECURSIVE addChangeFiles(_, _)
addChangeFiles(set, textChanges) ==
  IF textChanges = <<>> THEN set
  ELSE addChangeFiles(SetAdd(set, Head(textChanges).uri), Tail(textChanges))

Phases == <<"exploring", "iterating", "building", "debugging", "archaeology", "unknown">>

\* a session test that takes any imbalance of starts and stops for a session
sessionActive_unbalanced(debugStarts, debugStops) == Len(debugStarts) # Len(debugStops)

\* debugStarts.length > debugStops.length: a session was started and not stopped
sessionActive(debugStarts, debugStops) == Len(debugStarts) > Len(debugStops)

\* the five scores, each the sum of its rules
phaseScores(events) ==
  LET fileSwitches == filterKind(events, "file_switch")
      textChanges == filterKind(events, "text_change")
      saves == filterKind(events, "file_save")
      debugStarts == filterKind(events, "debug_start")
      debugStops == filterKind(events, "debug_stop")
      terminalCmds == filterKind(events, "terminal_command_start")
      diagnosticChanges == filterKind(events, "diagnostic_change")
      breakpointChanges == filterKind(events, "breakpoint_change")
      uniqueFiles == addChangeFiles(addSwitchFiles(<<>>, fileSwitches), textChanges)
      testCommands == filterCommands(terminalCmds, TestCommandRegex)
      gitHistoryCommands == filterCommands(terminalCmds, GitHistoryRegex)
      exploring ==
        (IF Len(fileSwitches) >= 4 /\ Len(textChanges) <= 1 THEN 3 ELSE 0)
        + (IF Len(uniqueFiles) >= 3 /\ Len(textChanges) = 0 THEN 2 ELSE 0)
      iterating ==
        (IF Len(textChanges) >= 2 /\ Len(saves) >= 1 THEN 2 ELSE 0)
        + (IF Len(testCommands) >= 1 /\ Len(textChanges) >= 1 THEN 3 ELSE 0)
        + (IF Len(diagnosticChanges) >= 2 THEN 1 ELSE 0)
      building ==
        (IF Len(textChanges) >= 3 /\ Len(fileSwitches) <= 2 THEN 3 ELSE 0)
        + (IF Len(saves) >= 2 /\ Len(textChanges) >= 2 /\ Len(fileSwitches) <= 1
           THEN 2 ELSE 0)
      debugging ==
        (IF sessionActive(debugStarts, debugStops) THEN 4 ELSE 0)
        + (IF Len(breakpointChanges) >= 1 THEN 2 ELSE 0)
        + (IF Len(debugStarts) >= 1 THEN 1 ELSE 0)
      archaeology ==
        (IF Len(gitHistoryCommands) >= 1 THEN 3 ELSE 0)
        + (IF /\ Len(fileSwitches) >= 3 /\ Len(textChanges) = 0
              /\ Len(gitHistoryCommands) >= 1
           THEN 2 ELSE 0)
  IN [exploring |-> exploring, iterating |-> iterating, building |-> building,
      debugging |-> debugging, archaeology |-> archaeology, unknown |-> 0]

\* a winner loop in which a later phase takes a tie
RECURSIVE findWinner_lastTie(_, _, _, _)
findWinner_lastTie(scores, k, bestPhase, bestScore) ==
  IF k > Len(Phases) THEN [phase |-> bestPhase, score |-> bestScore]
  ELSE IF scores[Phases[k]] >= bestScore /\ scores[Phases[k]] > 0
       THEN findWinner_lastTie(scores, k + 1, Phases[k], scores[Phases[k]])
       ELSE findWinner_lastTie(scores, k + 1, bestPhase, bestScore)

\* the winner loop over Object.entries(scores), from entry k on
RECURSIVE findWinner(_, _, _, _)
findWinner(scores, k, bestPhase, bestScore) ==
  IF k > Len(Phases) THEN [phase |-> bestPhase, score |-> bestScore]
  ELSE IF scores[Phases[k]] > bestScore
       THEN findWinner(scores, k + 1, Phases[k], scores[Phases[k]])
       ELSE findWinner(scores, k + 1, bestPhase, bestScore)

\* a confidence without the cap at 1
roundedConfidence_uncapped(bestScore) == (bestScore * 100) \div 5

\* Math.round(Math.min(1, bestScore / 5) * 100) / 100, kept in hundredths
roundedConfidence(bestScore) == Min(100, (bestScore * 100) \div 5)

\* the templated sentence, as the phase and the counts it is built from
generateReasoning(phase, events, files) ==
  LET fileCount == Len(files)
      editCount == Len(filterKind(events, "text_change"))
      switchCount == Len(filterKind(events, "file_switch"))
  IN CASE phase = "exploring" ->
            [template |-> "exploring", fileCount |-> fileCount,
             switchCount |-> switchCount, editCount |-> editCount]
       [] phase = "iterating" ->
            [template |-> "iterating", editCount |-> editCount, fileCount |-> fileCount]
       [] phase = "building" ->
            [template |-> "building", editCount |-> editCount, fileCount |-> fileCount]
       [] phase = "debugging" -> [template |-> "debugging", fileCount |-> fileCount]
       [] phase = "archaeology" -> [template |-> "archaeology", fileCount |-> fileCount]
       [] OTHER ->
            [template |-> "unclear", eventCount |-> Len(events), fileCount |-> fileCount]

\* a classifier that guesses from fewer than three events
detectPhase_noMinimum(events) ==
  LET scores == phaseScores(events)
      best == findWinner(scores, 1, "unknown", 0)
  IN [phase |-> best.phase, confidence |-> roundedConfidence(best.score),
      reasoning |-> [template |-> best.phase], recentFiles |-> <<>>]

\* detectPhase(events); confidence is kept in hundredths
detectPhase(events) ==
  IF Len(events) < 3
  THEN [phase |-> "unknown", confidence |-> 0,
        reasoning |-> [template |-> "Insufficient activity"], recentFiles |-> <<>>]
  ELSE LET scores == phaseScores(events)
           fileSwitches == filterKind(events, "file_switch")
           textChanges == filterKind(events, "text_change")
           uniqueFiles == addChangeFiles(addSwitchFiles(<<>>, fileSwitches), textChanges)
           best == findWinner(scores, 1, "unknown", 0)
           confidence == roundedConfidence(best.score)
       IN [phase |-> best.phase,
           confidence |-> confidence,
           reasoning |-> generateReasoning(best.phase, events, uniqueFiles),
           recentFiles |-> SubSeq(uniqueFiles, 1, Min(5, Len(uniqueFiles)))]

\* ------------------------------------------- the classifier alone (SpecPhase)
PhaseEvents ==
  {[kind |-> "file_switch", timestamp |-> 0, fromUri |-> Null, toUri |-> "a.ts",
    toLanguageId |-> "typescript"],
   [kind |-> "file_switch", timestamp |-> 0, fromUri |-> "b.ts", toUri |-> "c.ts",
    toLanguageId |-> "typescript"],
   [kind |-> "text_change", timestamp |-> 0, uri |-> "a.ts", changeCount |-> 1],
   [kind |-> "file_save", timestamp |-> 0, uri |-> "a.ts", languageId |-> "typescript"],
   [kind |-> "debug_start", timestamp |-> 0, sessionName |-> "Launch",
    sessionType |-> "node"],
   [kind |-> "debug_stop", timestamp |-> 0, sessionName |-> "Launch",
    sessionType |-> "node"],
   [kind |-> "diagnostic_change", timestamp |-> 0, uris |-> <<"a.ts">>,
    totalErrors |-> 1, totalWarnings |-> 0],
   [kind |-> "breakpoint_change", timestamp |-> 0, added |-> 1, removed |-> 0,
    changed |-> 0],
   [kind |-> "terminal_command_start", timestamp |-> 0, commandLine |-> NpmTest,
    terminalName |-> "bash"],
   [kind |-> "terminal_command_start", timestamp |-> 0, commandLine |-> GitLogLatest,
    terminalName |-> "bash"],
   [kind |-> "terminal_command_end", timestamp |-> 0, commandLine |-> NpmTest,
    terminalName |-> "bash", exitCode |-> 0]}

InitPhase ==
  /\ \E n \in 0..MaxWindow : window \in [1..n -> PhaseEvents]
  /\ returned = <<>>
  /\ lastOp = [op |-> "new"]
  /\ capacity = 1
  /\ buffer = NewArray(capacity)
  /\ head = 0
  /\ count = 0
  /\ pushed = <<>>
  /\ lastActiveUri = Null
  /\ textChangeTimers = <<>>
  /\ disposables = {}
  /\ pc = "constructed"
  /\ clock = 0
  /\ timerQueue = {}
  /\ activeTextEditor = Null
  /\ burst = [u \in Uris |-> NoBurst]
  /\ appended = 0
  /\ editsLeft = 0
  /\ ticksLeft = 0
  /\ host = QuietHost
  /\ CommandIdle

classify ==
  /\ lastOp.op = "new"
  /\ returned' = detectPhase(window)
  /\ lastOp' = [op |-> "detectPhase"]
  /\ UNCHANGED <<rbVars, pushed, elVars>>

NextPhase == classify

SpecPhase == InitPhase /\ [][NextPhase]_vars

\* ------------------------------------------------------------------ claims
LastN(s, n) == SubSeq(s, Len(s) - n + 1, Len(s))

\* C1: after n pushes into a buffer of capacity C (no clear in between),
\* toArray() has length min(n, C) and is the last min(n, C) pushed items in
\* push order; a read returns that array.
C1_LastPushed ==
  /\ Len(toArray) = Min(Len(pushed), capacity)
  /\ toArray = LastN(pushed, Min(Len(pushed), capacity))
  /\ lastOp.op = "toArray" => returned = LastN(pushed, Min(Len(pushed), capacity))

C1_Witness ==
  /\ lastOp.op = "toArray"
  /\ capacity = 2
  /\ Len(pushed) = 4
  /\ Len(returned) = 2

\* C2: size <= capacity in every state reachable by push, clear, toArray and
\* since; a push into a full buffer drops exactly the oldest item and keeps the
\* rest in order, a push into a buffer that is not full drops nothing.
C2_Step ==
  LET before == toArray
      after == toArray'
  IN /\ size' <= capacity'
     /\ lastOp'.op = "push" =>
          /\ (size = capacity => after = Tail(before) \o <<lastOp'.item>>)
          /\ (size < capacity => after = before \o <<lastOp'.item>>)

C2_EvictOldest == [](size <= capacity) /\ [][C2_Step]_vars

C2_Witness ==
  /\ lastOp.op = "push"
  /\ capacity = 3
  /\ Len(pushed) = 4
  /\ size = capacity

NonDecreasing(arr) ==
  \A i \in 1..Len(arr) : \A j \in i..Len(arr) : arr[i].timestamp <= arr[j].timestamp

IsSuffix(s, arr) == Len(s) <= Len(arr) /\ s = LastN(arr, Len(s))

Qualifying(arr, cutoff) == {i \in 1..Len(arr) : arr[i].timestamp >= cutoff}

\* C3 as stated: for any buffer contents since(w, now) is a contiguous suffix of
\* toArray() holding exactly the items with timestamp >= now - w.
C3_SinceIsSuffix ==
  lastOp.op = "since" =>
    LET arr == toArray
        cutoff == lastOp.now - lastOp.ms
    IN /\ IsSuffix(returned, arr)
       /\ Len(returned) = Cardinality(Qualifying(arr, cutoff))

\* C3 amended: since(w, now) is the order-preserving subsequence of toArray()
\* holding exactly the items with timestamp >= now - w (boundary inclusive); it
\* is a contiguous suffix whenever the stored timestamps are non-decreasing,
\* the whole array when every item qualifies and [] when none does.
C3_SinceFilter ==
  lastOp.op = "since" =>
    LET arr == toArray
        cutoff == lastOp.now - lastOp.ms
        keep == Qualifying(arr, cutoff)
    IN /\ returned = SelectSeq(arr, LAMBDA item : item.timestamp >= cutoff)
       /\ Len(returned) = Cardinality(keep)
       /\ (NonDecreasing(arr) => IsSuffix(returned, arr))
       /\ (keep = 1..Len(arr) => returned = arr)
       /\ (keep = {} => returned = <<>>)

C3_Witness ==
  /\ lastOp.op = "since"
  /\ NonDecreasing(toArray)
  /\ Len(toArray) = 3
  /\ Len(returned) = 2
  /\ returned[1].timestamp = lastOp.now - lastOp.ms

\* what push(e) makes of the array arr in a buffer of this capacity
EvictAppend(arr, e) ==
  IF Len(arr) = capacity THEN Tail(arr) \o <<e>> ELSE arr \o <<e>>

LastOf(arr) == arr[Len(arr)]

\* C4: after any interleaving of host notifications and debounce-timer
\* firings the events returned by all() are in non-decreasing timestamp
\* order, also after the ring buffer has wrapped around and also between
\* debounced text_change records and events appended at once.
C4_TimestampOrder == NonDecreasing(all)

C4_Witness ==
  /\ capacity = 2
  /\ appended = 3
  /\ Len(all) = 2
  /\ all[1].kind = "file_save"
  /\ all[2].kind = "text_change"
  /\ all[1].timestamp < all[2].timestamp
  /\ all[1].timestamp > all[2].timestamp - TEXT_CHANGE_DEBOUNCE_MS

\* C5: an active-editor notification that reports the remembered resource
\* (both may be null) appends nothing and leaves the remembered resource and
\* the log unchanged; any other appends exactly one file_switch from the
\* remembered resource to the reported one and remembers the reported one.
\* The remembered resource is seeded at construction from the active editor.
C5_Step ==
  (lastOp'.op = "onDidChangeActiveTextEditor" /\ lastOp'.delivered) =>
    LET reported == activeTextEditor'
    IN IF reported = lastActiveUri
       THEN /\ UNCHANGED <<buffer, head, count, lastActiveUri, appended>>
            /\ all' = all
       ELSE /\ all' = EvictAppend(all, [kind |-> "file_switch", timestamp |-> clock,
                                        fromUri |-> lastActiveUri, toUri |-> reported,
                                        toLanguageId |-> LanguageIdOf(reported)])
            /\ appended' = appended + 1
            /\ lastActiveUri' = reported

C5_Dedup ==
  /\ [](pc = "constructed" => lastActiveUri = activeTextEditor)
  /\ [][C5_Step]_vars

C5_Witness ==
  /\ lastOp.op = "onDidChangeActiveTextEditor"
  /\ lastOp.delivered
  /\ lastOp.appended = 0
  /\ lastActiveUri = Null
  /\ appended = 1
  /\ all[1].kind = "file_switch"
  /\ all[1].toUri = Null

PendingFor(uri) == {t \in timerQueue : t.uri = uri}

IsEdit(op) ==
  op.op = "onDidChangeTextDocument" /\ op.delivered /\ op.contentChanges > 0

\* C6 as stated: the one text_change of a burst is appended 2000 ms after the
\* last edit of the burst, and nothing is appended while the burst is ongoing.
C6_StepExact ==
  /\ IsEdit(lastOp') => (all' = all /\ appended' = appended)
  /\ lastOp'.op = "textChangeTimeout" =>
       LET e == LastOf(all')
       IN /\ e.kind = "text_change"
          /\ burst[e.uri].n >= 1
          /\ e.timestamp = burst[e.uri].last + TEXT_CHANGE_DEBOUNCE_MS

C6_ExactDelay == [][C6_StepExact]_vars

\* C6 amended: for a burst of edit notifications to one resource, each
\* arriving before the timer armed by the previous one has run, nothing is
\* appended while the burst is ongoing, one timer stays armed for the resource,
\* due 2000 ms after the last edit, and exactly one text_change for it is
\* appended when that timer runs, which is 2000 ms after the last edit or later.
C6_Armed ==
  pc = "started" =>
    \A u \in Uris :
      IF burst[u].n > 0
      THEN /\ u \in DOMAIN textChangeTimers
           /\ PendingFor(u) = {textChangeTimers[u]}
           /\ textChangeTimers[u].due = burst[u].last + TEXT_CHANGE_DEBOUNCE_MS
      ELSE /\ u \notin DOMAIN textChangeTimers
           /\ PendingFor(u) = {}

C6_Step ==
  /\ IsEdit(lastOp') => (all' = all /\ appended' = appended)
  /\ lastOp'.op = "textChangeTimeout" =>
       LET e == LastOf(all')
       IN /\ e.kind = "text_change"
          /\ burst[e.uri].n >= 1
          /\ e.timestamp = clock
          /\ e.timestamp >= burst[e.uri].last + TEXT_CHANGE_DEBOUNCE_MS
          /\ appended' = appended + 1
          /\ burst'[e.uri].n = 0
          /\ \A t \in timerQueue' : t.uri # e.uri
  /\ appended' # appended /\ LastOf(all').kind = "text_change" =>
       lastOp'.op = "textChangeTimeout"

C6_Debounce == []C6_Armed /\ [][C6_Step]_vars

C6_Witness ==
  /\ lastOp.op = "textChangeTimeout"
  /\ lastOp.coalesced = 3
  /\ pc = "started"
  /\ LastOf(all).kind = "text_change"
  /\ LastOf(all).timestamp = 3000

\* C7: the changeCount of the text_change that ends a burst is the number of
\* edit operations of every notification coalesced into it.
C7_Step ==
  lastOp'.op = "textChangeTimeout" =>
    LET e == LastOf(all')
    IN e.changeCount = burst[e.uri].ops

C7_BurstCount == [][C7_Step]_vars

\* C8: after dispose() the log never changes again, no timer that was pending
\* at disposal runs, no later notification appends, and the timer map is empty.
C8_Step ==
  /\ lastOp'.op = "dispose" =>
       (UNCHANGED <<buffer, head, count, appended>> /\ timerQueue' = {})
  /\ pc = "disposed" =>
       (UNCHANGED <<buffer, head, count, appended, textChangeTimers, timerQueue>>
        /\ pc' = "disposed")

C8_Disposed ==
  /\ [](pc = "disposed" => (textChangeTimers = <<>> /\ timerQueue = {}))
  /\ [][C8_Step]_vars

C8_Witness ==
  /\ pc = "disposed"
  /\ \A u \in Uris : burst[u].n >= 1 /\ clock >= burst[u].last + TEXT_CHANGE_DEBOUNCE_MS
  /\ lastOp.op = "onDidSaveTextDocument"
  /\ ~lastOp.delivered

\* ---- the classifier, restated from its policy
CountKind(evts, kind) == Cardinality({i \in 1..Len(evts) : evts[i].kind = kind})

\* the words of a command line: maximal runs of word characters, as [from, to]
WordsOf(s) ==
  {w \in (1..Len(s)) \X (1..Len(s)) :
     /\ w[1] <= w[2]
     /\ \A k \in w[1]..w[2] : IsWordChar(s[k])
     /\ (w[1] = 1 \/ ~IsWordChar(s[w[1] - 1]))
     /\ (w[2] = Len(s) \/ ~IsWordChar(s[w[2] + 1]))}

Folded(s, w) == [k \in 1..(w[2] - w[1] + 1) |-> ToLower(s[w[1] + k - 1])]

HasTestToken(s) ==
  \E w \in WordsOf(s) : Folded(s, w) \in {Word.test, Word.jest, Word.mocha, Word.pytest}

HasHistoryVerb(s) ==
  \E g, v \in WordsOf(s) :
    /\ Folded(s, g) = Word.git
    /\ g[2] + 1 < v[1]
    /\ \A k \in (g[2] + 1)..(v[1] - 1) : IsSpace(s[k])
    /\ Folded(s, v) \in {Word.blame, Word.log, Word.diff, Word.show, Word.annotate}

Touched(evts) ==
  ({evts[i].fromUri : i \in {j \in 1..Len(evts) : evts[j].kind = "file_switch"}}
   \cup {evts[i].toUri : i \in {j \in 1..Len(evts) : evts[j].kind = "file_switch"}}
   \cup {evts[i].uri : i \in {j \in 1..Len(evts) : evts[j].kind = "text_change"}})
  \ {Null}

TestLines == {s \in TerminalLines : HasTestToken(s)}
HistoryLines == {s \in TerminalLines : HasHistoryVerb(s)}

AnyCommand(evts, lines) ==
  \E i \in 1..Len(evts) :
    evts[i].kind = "terminal_command_start" /\ evts[i].commandLine \in lines

Bonus(condition, points) == IF condition THEN points ELSE 0

ReferenceScores(evts) ==
  LET sw == CountKind(evts, "file_switch")
      tc == CountKind(evts, "text_change")
      sv == CountKind(evts, "file_save")
      ds == CountKind(evts, "debug_start")
      dt == CountKind(evts, "debug_stop")
      dg == CountKind(evts, "diagnostic_change")
      bp == CountKind(evts, "breakpoint_change")
      history == AnyCommand(evts, HistoryLines)
  IN [exploring |-> Bonus(sw >= 4 /\ tc <= 1, 3)
                    + Bonus(Cardinality(Touched(evts)) >= 3 /\ tc = 0, 2),
      iterating |-> Bonus(tc >= 2 /\ sv >= 1, 2)
                    + Bonus(AnyCommand(evts, TestLines) /\ tc >= 1, 3)
                    + Bonus(dg >= 2, 1),
      building |-> Bonus(tc >= 3 /\ sw <= 2, 3)
                   + Bonus(sv >= 2 /\ tc >= 2 /\ sw <= 1, 2),
      debugging |-> Bonus(ds > dt, 4) + Bonus(bp >= 1, 2) + Bonus(ds >= 1, 1),
      archaeology |-> Bonus(history, 3) + Bonus(sw >= 3 /\ tc = 0 /\ history, 2)]

EvaluationOrder == <<"exploring", "iterating", "building", "debugging", "archaeology">>

ReferencePhase(sc) ==
  IF \A k \in 1..5 : sc[EvaluationOrder[k]] = 0 THEN "unknown"
  ELSE EvaluationOrder[
         CHOOSE k \in 1..5 :
           /\ \A j \in 1..5 : sc[EvaluationOrder[j]] <= sc[EvaluationOrder[k]]
           /\ \A j \in 1..(k - 1) : sc[EvaluationOrder[j]] < sc[EvaluationOrder[k]]]

Classified == lastOp.op = "detectPhase"

\* C9: a window of fewer than three events (the empty one included) is
\* classified unknown with confidence 0 and no recent files, whatever the
\* events in it are.
C9_TooFewEvents ==
  (Classified /\ Len(window) < 3) =>
    /\ returned.phase = "unknown"
    /\ returned.confidence = 0
    /\ returned.recentFiles = <<>>

\* two events that would otherwise score 7 for debugging
C9_Witness ==
  /\ Classified
  /\ Len(window) = 2
  /\ window[1].kind = "debug_start"
  /\ window[2].kind = "breakpoint_change"
  /\ returned.phase = "unknown"

\* C10: for a window of three or more events the phase returned is the one
\* the scoring policy names: the phase of strictly greatest score, a tie going
\* to the earliest of exploring, iterating, building, debugging, archaeology,
\* and unknown exactly when all five scores are 0.
C10_ReferencePhase ==
  (Classified /\ Len(window) >= 3) =>
    LET sc == ReferenceScores(window)
    IN /\ returned.phase = ReferencePhase(sc)
       /\ (returned.phase = "unknown") <=> (\A k \in 1..5 : sc[EvaluationOrder[k]] = 0)

\* iterating and archaeology tie at 3; the earlier one is returned
C10_Witness ==
  /\ Classified
  /\ Len(window) = 3
  /\ phaseScores(window).iterating = 3
  /\ phaseScores(window).archaeology = 3
  /\ phaseScores(window).debugging = 0
  /\ returned.phase = "iterating"

\* C11: for every window the confidence returned is min(1, bestScore / 5)
\* rounded to two decimals, bestScore being the score of the winning phase (0
\* for unknown); it lies in [0, 1] also when the winning score exceeds 5.
\* Confidence is in hundredths: c is x rounded iff c - 1/2 <= 100 x < c + 1/2.
C11_Confidence ==
  Classified =>
    LET bestScore == IF returned.phase = "unknown" \/ Len(window) < 3 THEN 0
                     ELSE ReferenceScores(window)[returned.phase]
        fifths == IF bestScore > 5 THEN 5 ELSE bestScore
        c == returned.confidence
    IN /\ 0 <= c /\ c <= 100
       /\ 2 * c - 1 <= 40 * fifths
       /\ 40 * fifths < 2 * c + 1

\* debugging wins with 7 points and the confidence is 1
C11_Witness ==
  /\ Classified
  /\ Len(window) = 3
  /\ returned.phase = "debugging"
  /\ ReferenceScores(window).debugging = 7
  /\ returned.confidence = 100

\* the resources of one event, in the order the event names them
FilesOf(e) ==
  IF e.kind = "file_switch"
  THEN SelectSeq(<<e.fromUri, e.toUri>>, LAMBDA u : u # Null)
  ELSE IF e.kind = "text_change" THEN <<e.uri>> ELSE <<>>

\* the distinct resources of a window by first appearance in event order
RECURSIVE FirstSeen(_, _)
FirstSeen(seen, evts) ==
  IF evts = <<>> THEN seen
  ELSE LET fs == FilesOf(Head(evts))
           s1 == IF Len(fs) >= 1 THEN SetAdd(seen, fs[1]) ELSE seen
           s2 == IF Len(fs) >= 2 THEN SetAdd(s1, fs[2]) ELSE s1
       IN FirstSeen(s2, Tail(evts))

\* C12: for a window of at least 3 events recentFiles is the distinct
\* resources of its file_switch (both ends, nulls skipped) and text_change
\* events, ordered by first appearance in the window's event order and cut to
\* the first 5, without duplicates.
C12_RecentFiles ==
  (Classified /\ Len(window) >= 3) =>
    LET files == FirstSeen(<<>>, window)
        n == Len(returned.recentFiles)
    IN /\ returned.recentFiles = SubSeq(files, 1, Min(5, Len(files)))
       /\ n <= 5
       /\ \A i, j \in 1..n : i # j => returned.recentFiles[i] # returned.recentFiles[j]

\* C13: a window without debug_start that holds only debug_stop, file_switch
\* and text_change events (any number of each) is never classified debugging.
C13_StopAlone ==
  (/\ Classified
   /\ \A i \in 1..Len(window) :
        window[i].kind \in {"debug_stop", "file_switch", "text_change"}) =>
    returned.phase # "debugging"

\* two stops, a switch and two edits: the stops score nothing for debugging
C13_Witness ==
  /\ Classified
  /\ Len(window) = 5
  /\ window[1].kind = "debug_stop"
  /\ window[2].kind = "debug_stop"
  /\ window[3].kind = "file_switch"
  /\ window[4].kind = "text_change"
  /\ window[5].kind = "text_change"
  /\ returned.phase = "unknown"

IsHistoryCommand(e) ==
  e.kind = "terminal_command_start" /\ e.commandLine \in HistoryLines

\* a window of at least 3 events: file switches and history commands only, at
\* least one of the latter
HistoryBrowsing ==
  /\ Classified
  /\ Len(window) >= 3
  /\ \A i \in 1..Len(window) : window[i].kind = "file_switch" \/ IsHistoryCommand(window[i])
  /\ \E i \in 1..Len(window) : IsHistoryCommand(window[i])

\* C14 as stated: such a window is classified archaeology, for any number of
\* file switches and distinct files.
C14_AlwaysArchaeology == HistoryBrowsing => returned.phase = "archaeology"

\* C14 amended: such a window is classified archaeology unless it holds at
\* least 4 file switches over at least 3 distinct resources; then exploring
\* scores 5 as well and, coming first in the evaluation order, is returned.
C14_Archaeology ==
  HistoryBrowsing =>
    IF CountKind(window, "file_switch") >= 4 /\ Cardinality(Touched(window)) >= 3
    THEN returned.phase = "exploring" /\ returned.confidence = 100
    ELSE returned.phase = "archaeology"

\* one history command and three switches over three resources
C14_Witness ==
  /\ HistoryBrowsing
  /\ Len(window) = 4
  /\ CountKind(window, "file_switch") = 3
  /\ Cardinality(Touched(window)) = 3
  /\ returned.phase = "archaeology"
  /\ returned.confidence = 100

\* ------------------------------------------------------------ polledState
\* a synchronous call either returns a value or throws
Return(v) == [completion |-> "return", value |-> v]
Throw(e) == [completion |-> "throw", error |-> e]
\* a promise settles either way
Fulfilled(v) == [status |-> "fulfilled", value |-> v]
Rejected(e) == [status |-> "rejected", reason |-> e]

\* host: the editor object behind vscode.window.activeTextEditor (0-based lines)
TextEditor(h, uri) ==
  [document |-> [uri |-> uri, languageId |-> "typescript", lineCount |-> 10,
                 isDirty |-> TRUE, text |-> "const x = 1;"],
   selection |-> [isEmpty |-> h.selectionEmpty,
                  start |-> [line |-> 4, character |-> 0],
                  end |-> [line |-> IF h.selectionEmpty THEN 4 ELSE 6,
                           character |-> 0],
                  active |-> [line |-> 4, character |-> 0]],
   visibleRanges |-> <<[start |-> [line |-> 0], end |-> [line |-> 9]]>>]

\* pollActiveEditor(): null without an editor, otherwise its 1-based summary
pollActiveEditor(h, editorUri) ==
  IF h.failing = "activeEditor" THEN Throw("activeEditor")
  ELSE IF editorUri = Null THEN Return(None)
  ELSE LET editor == TextEditor(h, editorUri)
           doc == editor.document
           sel == editor.selection
           visibleRanges == editor.visibleRanges
       IN  Return(
             [uri |-> doc.uri,
              languageId |-> doc.languageId,
              cursorLine |-> sel.active.line + 1,
              cursorColumn |-> sel.active.character + 1,
              selectionText |-> IF sel.isEmpty THEN "" ELSE doc.text,
              selectionStartLine |-> sel.start.line + 1,
              selectionEndLine |-> sel.end.line + 1,
              visibleRangeStart |-> IF Len(visibleRanges) > 0
                                      THEN visibleRanges[1].start.line + 1 ELSE 1,
              visibleRangeEnd |-> IF Len(visibleRanges) > 0
                                    THEN visibleRanges[Len(visibleRanges)].end.line + 1
                                    ELSE 1,
              lineCount |-> doc.lineCount,
              isDirty |-> doc.isDirty])

\* pollOpenTabs(): the text tabs of every group, in host order
RECURSIVE textTabs(_)
textTabs(tabs) ==
  IF tabs = <<>> THEN <<>>
  ELSE LET tab == Head(tabs)
       IN  (IF tab.isText
              THEN <<[uri |-> tab.uri, label |-> tab.label, isDirty |-> tab.isDirty,
                      isActive |-> tab.isActive, isPinned |-> tab.isPinned]>>
              ELSE <<>>) \o textTabs(Tail(tabs))

pollOpenTabs(h) ==
  IF h.failing = "openTabs" THEN Throw("openTabs") ELSE Return(textTabs(h.tabs))

\* vscode.DiagnosticSeverity
DiagnosticSeverity == [Error |-> 0, Warning |-> 1, Information |-> 2, Hint |-> 3]

\* the loop of pollDiagnostics over the host's diagnostics, file by file: what is
\* more severe than a warning is kept, and the scan returns as soon as the list
\* has maxDiagnostics entries
RECURSIVE scanDiagnostics(_, _, _)
scanDiagnostics(allDiags, result, maxDiagnostics) ==
  IF allDiags = <<>> THEN result
  ELSE LET d == Head(allDiags)
       IN  IF DiagnosticSeverity[d.severity] > DiagnosticSeverity.Warning
             THEN scanDiagnostics(Tail(allDiags), result, maxDiagnostics)
             ELSE LET kept == Append(result,
                                [uri |-> d.uri,
                                 severity |-> IF d.severity = "Error" THEN "error"
                                              ELSE "warning",
                                 message |-> d.message,
                                 line |-> d.line + 1,
                                 source |-> d.source])
                  IN  IF Len(kept) >= maxDiagnostics THEN kept
                      ELSE scanDiagnostics(Tail(allDiags), kept, maxDiagnostics)

pollDiagnostics(h) ==
  IF h.failing = "diagnostics" THEN Throw("diagnostics")
  ELSE Return(scanDiagnostics(h.diagnostics, <<>>, h.maxDiagnosticsInContext))

\* pollBreakpoints(): the source breakpoints, 1-based
RECURSIVE sourceBreakpoints(_)
sourceBreakpoints(bps) ==
  IF bps = <<>> THEN <<>>
  ELSE LET bp == Head(bps)
       IN  (IF bp.isSource
              THEN <<[uri |-> bp.uri, line |-> bp.line + 1, enabled |-> bp.enabled,
                      condition |-> bp.condition]>>
              ELSE <<>>) \o sourceBreakpoints(Tail(bps))

pollBreakpoints(h) ==
  IF h.failing = "breakpoints" THEN Throw("breakpoints")
  ELSE Return(sourceBreakpoints(h.breakpoints))

\* host: the first repository of the git provider
Repository ==
  [HEAD |-> [name |-> "main", ahead |-> 1, behind |-> 0],
   indexChanges |-> <<"a.ts">>,
   workingTreeChanges |-> <<[path |-> "b.ts", status |-> 5],
                            [path |-> "c.ts", status |-> 7]>>]

RECURSIVE paths(_)
paths(changes) ==
  IF changes = <<>> THEN <<>> ELSE <<Head(changes).path>> \o paths(Tail(changes))

\* pollGitStatus(): null without the provider, when its activation fails and
\* without a repository; what goes wrong once the provider is active (getAPI or
\* the repository state throwing) rejects the promise
pollGitStatus(h) ==
  IF h.git = "missing" THEN Fulfilled(None)
  ELSE IF h.git = "activationFails" THEN Fulfilled(None)
  ELSE IF h.failing = "gitStatus" THEN Rejected("gitStatus")
  ELSE IF h.git = "noRepository" THEN Fulfilled(None)
  ELSE LET repo == Repository
           headRef == repo.HEAD
       IN  Fulfilled(
             [branch |-> headRef.name,
              ahead |-> headRef.ahead,
              behind |-> headRef.behind,
              staged |-> repo.indexChanges,
              modified |-> paths(repo.workingTreeChanges),
              untracked |-> paths(SelectSeq(repo.workingTreeChanges,
                                            LAMBDA c : c.status = 7))])

RECURSIVE dirtyUris(_)
dirtyUris(tabs) ==
  IF tabs = <<>> THEN <<>>
  ELSE (IF Head(tabs).isDirty THEN <<Head(tabs).uri>> ELSE <<>>) \o dirtyUris(Tail(tabs))

\* pollState(): the four synchronous polls run while the argument of Promise.all
\* is built, so the first one that throws rejects pollState; so does a rejected
\* pollGitStatus(); otherwise the seven fields
pollState(h, editorUri) ==
  LET activeEditor == pollActiveEditor(h, editorUri)
      openTabs == pollOpenTabs(h)
      diagnostics == pollDiagnostics(h)
      breakpoints == pollBreakpoints(h)
      gitStatus == pollGitStatus(h)
  IN  IF activeEditor.completion = "throw" THEN Rejected(activeEditor.error)
      ELSE IF openTabs.completion = "throw" THEN Rejected(openTabs.error)
      ELSE IF diagnostics.completion = "throw" THEN Rejected(diagnostics.error)
      ELSE IF breakpoints.completion = "throw" THEN Rejected(breakpoints.error)
      ELSE IF gitStatus.status = "rejected" THEN Rejected(gitStatus.reason)
      ELSE Fulfilled(
             [activeEditor |-> activeEditor.value,
              openTabs |-> openTabs.value,
              dirtyFiles |-> dirtyUris(openTabs.value),
              diagnostics |-> diagnostics.value,
              breakpoints |-> breakpoints.value,
              gitStatus |-> gitStatus.value,
              workspaceFolders |-> <<"/work">>])

\* --------------------------------------------- contextAssembly: the formatter
\* Array.prototype.slice(0, end)
slice(arr, end) == SubSeq(arr, 1, Min(end, Len(arr)))

\* x / 1000 cut down to a whole number
roundSeconds_floor(ms) == ms \div 1000

\* Math.round(x / 1000) for an integer x: the nearest integer, halves upwards
roundSeconds(ms) == (ms + 500) \div 1000

\* The text is kept as its sequence of lines, parts.join('\n') undone, and a line
\* as the values its template interpolates, under the name of the template.
BlankLine == [line |-> "blank"]

\* formatEvent(event, now): the age in whole seconds and what happened
formatEvent(event, now) ==
  LET ago == roundSeconds(now - event.timestamp)
  IN  CASE event.kind = "file_switch" ->
             [line |-> "event", ago |-> ago, what |-> "switched to",
              uri |-> IF event.toUri = Null THEN "none" ELSE event.toUri]
        [] event.kind = "file_save" ->
             [line |-> "event", ago |-> ago, what |-> "saved", uri |-> event.uri]
        [] event.kind = "debug_start" ->
             [line |-> "event", ago |-> ago, what |-> "started debug",
              sessionName |-> event.sessionName]
        [] event.kind = "debug_stop" ->
             [line |-> "event", ago |-> ago, what |-> "ended debug",
              sessionName |-> event.sessionName]
        [] event.kind = "diagnostic_change" ->
             [line |-> "event", ago |-> ago, what |-> "diagnostics changed",
              errors |-> event.totalErrors, warnings |-> event.totalWarnings]
        [] event.kind = "terminal_command_start" ->
             [line |-> "event", ago |-> ago, what |-> "ran",
              commandLine |-> event.commandLine]
        [] event.kind = "terminal_command_end" ->
             [line |-> "event", ago |-> ago, what |-> "command finished",
              exit |-> event.exitCode]
        [] event.kind = "text_change" ->
             [line |-> "event", ago |-> ago, what |-> "edited", uri |-> event.uri]
        [] event.kind = "breakpoint_change" ->
             [line |-> "event", ago |-> ago, what |-> "breakpoints changed",
              added |-> event.added, removed |-> event.removed]

\* the phase header: the bundle's own timestamp, the phase, Math.round(confidence
\* * 100) percent (the confidence is kept in hundredths), the reasoning
headerLines(b) ==
  <<[line |-> "header", timestamp |-> b.timestamp],
    [line |-> "phase", phase |-> b.phase.phase, percent |-> b.phase.confidence],
    [line |-> "reasoning", reasoning |-> b.phase.reasoning],
    BlankLine>>

editorLines(b) ==
  IF b.state.activeEditor # None
    THEN LET ed == b.state.activeEditor
         IN  <<[line |-> "active file", uri |-> ed.uri, languageId |-> ed.languageId,
                cursorLine |-> ed.cursorLine, lineCount |-> ed.lineCount,
                unsaved |-> ed.isDirty]>>
    ELSE <<>>

selectionLines(b) ==
  IF b.selection # None
    THEN LET s == b.selection
         IN  <<[line |-> "selection", uri |-> s.uri, startLine |-> s.startLine,
                endLine |-> s.endLine],
               [line |-> "fence", languageId |-> s.languageId],
               [line |-> "snippet", snippet |-> s.snippet],
               [line |-> "fence", languageId |-> ""]>>
    ELSE <<>>

diagnosticLine(tag, d) ==
  [line |-> tag, uri |-> d.uri, at |-> d.line, message |-> d.message,
   source |-> d.source]

\* a diagnostics section that prints every error and every warning
diagnosticsLines_uncapped(b) ==
  LET errors == SelectSeq(b.state.diagnostics, LAMBDA d : d.severity = "error")
      warnings == SelectSeq(b.state.diagnostics, LAMBDA d : d.severity = "warning")
  IN  IF Len(errors) > 0 \/ Len(warnings) > 0
        THEN <<BlankLine,
               [line |-> "diagnostics", errors |-> Len(errors),
                warnings |-> Len(warnings)]>>
             \o [i \in 1..Len(errors) |-> diagnosticLine("ERROR", errors[i])]
             \o [i \in 1..Len(warnings) |-> diagnosticLine("WARN", warnings[i])]
        ELSE <<>>

\* the diagnostics section: the counts of all errors and warnings, then the
\* first 10 errors and the first 5 warnings
diagnosticsLines(b) ==
  LET errors == SelectSeq(b.state.diagnostics, LAMBDA d : d.severity = "error")
      warnings == SelectSeq(b.state.diagnostics, LAMBDA d : d.severity = "warning")
      firstErrors == slice(errors, 10)
      firstWarnings == slice(warnings, 5)
  IN  IF Len(errors) > 0 \/ Len(warnings) > 0
        THEN <<BlankLine,
               [line |-> "diagnostics", errors |-> Len(errors),
                warnings |-> Len(warnings)]>>
             \o [i \in 1..Len(firstErrors) |->
                   diagnosticLine("ERROR", firstErrors[i])]
             \o [i \in 1..Len(firstWarnings) |->
                   diagnosticLine("WARN", firstWarnings[i])]
        ELSE <<>>

\* [active, unsaved].filter(Boolean)
markersOf(tab) ==
  (IF tab.isActive THEN <<"active">> ELSE <<>>)
  \o (IF tab.isDirty THEN <<"unsaved">> ELSE <<>>)

tabLine(tab) == [line |-> "tab", uri |-> tab.uri, markers |-> markersOf(tab)]

\* the open tabs: the count of all of them, then the first 15
tabLines(b) ==
  IF Len(b.state.openTabs) > 0
    THEN <<BlankLine, [line |-> "open tabs", n |-> Len(b.state.openTabs)]>>
         \o LET firstTabs == slice(b.state.openTabs, 15)
            IN  [i \in 1..Len(firstTabs) |-> tabLine(firstTabs[i])]
    ELSE <<>>

gitLines(b) ==
  IF b.state.gitStatus # None
    THEN LET g == b.state.gitStatus
         IN  <<BlankLine,
               [line |-> "git", branch |-> g.branch, ahead |-> g.ahead,
                behind |-> g.behind]>>
             \o (IF Len(g.modified) > 0
                   THEN <<[line |-> "modified", files |-> g.modified]>> ELSE <<>>)
             \o (IF Len(g.staged) > 0
                   THEN <<[line |-> "staged", files |-> g.staged]>> ELSE <<>>)
    ELSE <<>>

breakpointLine(bp) ==
  [line |-> "breakpoint", uri |-> bp.uri, at |-> bp.line,
   condition |-> bp.condition, disabled |-> ~bp.enabled]

\* the breakpoints: the count of all of them, then the first 10
breakpointLines(b) ==
  IF Len(b.state.breakpoints) > 0
    THEN <<BlankLine, [line |-> "breakpoints", n |-> Len(b.state.breakpoints)]>>
         \o LET firstBreakpoints == slice(b.state.breakpoints, 10)
            IN  [i \in 1..Len(firstBreakpoints) |-> breakpointLine(firstBreakpoints[i])]
    ELSE <<>>

\* the event narrative: one line per event, its age taken at now = Date.now()
eventLines(b, now) ==
  IF Len(b.eventLog) > 0
    THEN <<BlankLine, [line |-> "recent activity", n |-> Len(b.eventLog)]>>
         \o [i \in 1..Len(b.eventLog) |-> formatEvent(b.eventLog[i], now)]
    ELSE <<>>

\* formatBundleForLLM(bundle), rendered when Date.now() is now
formatBundleForLLM(b, now) ==
  headerLines(b) \o editorLines(b) \o selectionLines(b) \o diagnosticsLines(b)
  \o tabLines(b) \o gitLines(b) \o breakpointLines(b) \o eventLines(b, now)

\* ------------------------------------------ contextAssembly: assembleContext
\* config.get('eventWindowSeconds', 60)
DEFAULT_EVENT_WINDOW_SECONDS == 60

\* eventLog.snapshot(windowMs) at Date.now() = now
snapshot(windowMs, now) == since(windowMs, now)

\* the selection captured in step 4, undefined without an editor or a selection
selectionOf(h, editorUri) ==
  IF editorUri # Null /\ ~TextEditor(h, editorUri).selection.isEmpty
    THEN LET editor == TextEditor(h, editorUri)
             doc == editor.document
             sel == editor.selection
         IN  [uri |-> doc.uri,
              startLine |-> sel.start.line + 1,
              endLine |-> sel.end.line + 1,
              snippet |-> doc.text,
              languageId |-> doc.languageId]
    ELSE None

\* assembleContext up to its await: the snapshot of the window is taken and
\* pollState() is called
assembleContext_poll(h, editorUri, now) ==
  LET windowSec == DEFAULT_EVENT_WINDOW_SECONDS
  IN  [events |-> snapshot(windowSec * 1000, now),
       state |-> pollState(h, editorUri)]

\* an assembleContext that detects the phase of the log as it is after the await
assembleContext_resume_latePhase(pending, h, editorUri, now) ==
  IF pending.state.status = "rejected" THEN Rejected(pending.state.reason)
  ELSE Fulfilled(
         [version |-> 1,
          timestamp |-> now,
          eventLog |-> pending.events,
          state |-> pending.state.value,
          phase |-> detectPhase(snapshot(DEFAULT_EVENT_WINDOW_SECONDS * 1000, now)),
          selection |-> selectionOf(h, editorUri)])

\* assembleContext after its await: a rejected pollState() rejects it, otherwise
\* the phase of the snapshot, the selection and the bundle stamped at now
assembleContext_resume(pending, h, editorUri, now) ==
  IF pending.state.status = "rejected" THEN Rejected(pending.state.reason)
  ELSE Fulfilled(
         [version |-> 1,
          timestamp |-> now,
          eventLog |-> pending.events,
          state |-> pending.state.value,
          phase |-> detectPhase(pending.events),
          selection |-> selectionOf(h, editorUri)])

\* ------------------------------------------------------------- httpClient
\* host: whether new URL(endpoint) accepts the configured endpoint
ValidUrl(endpoint) == endpoint = "https://hooks.example/ctx"

\* postJson that takes any answer of the server for a delivery
postJson_anyStatus(endpoint, response) ==
  IF ~ValidUrl(endpoint) THEN Rejected("Invalid URL")
  ELSE IF response.kind = "error" THEN Rejected(response.code)
  ELSE Fulfilled(None)

\* postJson(endpoint, data): resolves on a 2xx answer only; any other status, a
\* transport error and an endpoint that is no URL reject
postJson(endpoint, response) ==
  IF ~ValidUrl(endpoint) THEN Rejected("Invalid URL")
  ELSE IF response.kind = "error" THEN Rejected(response.code)
  ELSE IF response.statusCode # 0 /\ response.statusCode >= 200
          /\ response.statusCode < 300
    THEN Fulfilled(None)
  ELSE Rejected("Status")

\* ------------------------------ extension: the ctxbridge.assembleContext command
showInformationMessage(message) ==
  shown' = Append(shown, [level |-> "information", message |-> message])

showErrorMessage(message, detail) ==
  shown' = Append(shown, [level |-> "error", message |-> message, detail |-> detail])

\* the command is invoked: assembleContext(eventLog) runs up to its await
invokeAssembleContext ==
  /\ cmdPc = "idle"
  /\ bundle' = assembleContext_poll(host, activeTextEditor, clock)
  /\ cmdPc' = "assembling"
  /\ lastOp' = [op |-> "invokeAssembleContext"]
  /\ UNCHANGED <<rbVars, returned, pushed, lastActiveUri, textChangeTimers,
                 disposables, pc, clock, timerQueue, activeTextEditor, burst,
                 appended, editsLeft, ticksLeft, window, host, formatted, clipboard,
                 shown, requests, output>>

\* assembleContext settles: on a bundle the command formats it and writes the
\* text to the clipboard; on a rejection the outer catch reports it
assembleContextSettled ==
  /\ cmdPc = "assembling"
  /\ LET result == assembleContext_resume(bundle, host, activeTextEditor, clock)
     IN  IF result.status = "fulfilled"
           THEN /\ bundle' = result.value
                /\ formatted' = formatBundleForLLM(result.value, clock)
                /\ clipboard' = formatted'
                /\ cmdPc' = "copied"
                /\ UNCHANGED <<shown, output>>
           ELSE /\ bundle' = result
                /\ showErrorMessage("Context assembly failed", result.reason)
                /\ output' = Append(output, [line |-> "ERROR", detail |-> result.reason])
                /\ cmdPc' = "done"
                /\ UNCHANGED <<formatted, clipboard>>
  /\ lastOp' = [op |-> "assembleContextSettled"]
  /\ UNCHANGED <<rbVars, returned, pushed, lastActiveUri, textChangeTimers,
                 disposables, pc, clock, timerQueue, activeTextEditor, burst,
                 appended, editsLeft, ticksLeft, window, host, requests>>

\* the clipboard write is done: the bundle goes to the output channel and, with an
\* endpoint configured, postJson(endpoint, bundle) is called; a request leaves
\* only when the endpoint is a URL
clipboardWritten ==
  /\ cmdPc = "copied"
  /\ output' = output \o <<[line |-> "--- Context Bundle ---"]>> \o formatted
                      \o <<[line |-> "--- End Bundle ---"]>>
  /\ IF host.endpoint # ""
       THEN /\ requests' = IF ValidUrl(host.endpoint)
                             THEN Append(requests, [endpoint |-> host.endpoint,
                                                    data |-> bundle])
                             ELSE requests
            /\ cmdPc' = "posting"
            /\ UNCHANGED shown
       ELSE /\ showInformationMessage("Context bundle copied to clipboard")
            /\ cmdPc' = "done"
            /\ UNCHANGED requests
  /\ lastOp' = [op |-> "clipboardWritten"]
  /\ UNCHANGED <<rbVars, returned, pushed, lastActiveUri, textChangeTimers,
                 disposables, pc, clock, timerQueue, activeTextEditor, burst,
                 appended, editsLeft, ticksLeft, window, host, bundle, formatted,
                 clipboard>>

\* postJson settles: the success notification, or the inner catch
postJsonSettled ==
  /\ cmdPc = "posting"
  /\ LET result == postJson(host.endpoint, host.response)
     IN  IF result.status = "fulfilled"
           THEN showInformationMessage(
                  "Context bundle sent to endpoint and copied to clipboard")
           ELSE showErrorMessage("Endpoint send failed", result.reason)
  /\ cmdPc' = "done"
  /\ lastOp' = [op |-> "postJsonSettled"]
  /\ UNCHANGED <<rbVars, returned, pushed, lastActiveUri, textChangeTimers,
                 disposables, pc, clock, timerQueue, activeTextEditor, burst,
                 appended, editsLeft, ticksLeft, window, host, bundle, formatted,
                 clipboard, requests, output>>

\* ----------------------------- the command over a live recorder (SpecCommand)
HostTabs ==
  <<[isText |-> TRUE, uri |-> "a.ts", label |-> "a.ts", isDirty |-> TRUE,
     isActive |-> TRUE, isPinned |-> FALSE],
    [isText |-> FALSE, uri |-> "settings", label |-> "Settings", isDirty |-> FALSE,
     isActive |-> FALSE, isPinned |-> FALSE],
    [isText |-> TRUE, uri |-> "b.ts", label |-> "b.ts", isDirty |-> FALSE,
     isActive |-> FALSE, isPinned |-> TRUE]>>

HostDiagnostics ==
  <<[uri |-> "a.ts", severity |-> "Warning", message |-> "unused", line |-> 2,
     source |-> "ts"],
    [uri |-> "a.ts", severity |-> "Hint", message |-> "style", line |-> 3,
     source |-> "eslint"],
    [uri |-> "b.ts", severity |-> "Error", message |-> "type", line |-> 7,
     source |-> "ts"]>>

HostBreakpoints ==
  <<[isSource |-> TRUE, uri |-> "a.ts", line |-> 4, enabled |-> TRUE,
     condition |-> ""],
    [isSource |-> FALSE, uri |-> "", line |-> 0, enabled |-> TRUE, condition |-> ""],
    [isSource |-> TRUE, uri |-> "b.ts", line |-> 8, enabled |-> FALSE,
     condition |-> "x > 1"]>>

\* at most one of the five polls fails; the git provider is missing, fails to
\* activate, has no repository or is ready; an endpoint is not configured, a URL
\* or no URL; the server answers with a status or the request fails
CommandHosts ==
  {[failing |-> f, git |-> g, selectionEmpty |-> s, diagnostics |-> HostDiagnostics,
    maxDiagnosticsInContext |-> DEFAULT_MAX_DIAGNOSTICS, tabs |-> HostTabs,
    breakpoints |-> HostBreakpoints, endpoint |-> e, response |-> r,
    eventBufferSize |-> [type |-> "undefined"]] :
     f \in {"none", "activeEditor", "openTabs", "diagnostics", "breakpoints",
            "gitStatus"},
     g \in {"missing", "activationFails", "noRepository", "ready"},
     s \in BOOLEAN,
     e \in {"", "https://hooks.example/ctx", "not a url"},
     r \in {[kind |-> "response", statusCode |-> 200],
            [kind |-> "response", statusCode |-> 299],
            [kind |-> "response", statusCode |-> 300],
            [kind |-> "response", statusCode |-> 500],
            [kind |-> "error", code |-> "ECONNREFUSED"]}}

\* the git provider varies when the git poll is the one looked at, and the answer
\* of the server when a request can leave
InitCommand ==
  /\ capacity = MaxLogCapacity
  /\ buffer = NewArray(capacity)
  /\ head = 0
  /\ count = 0
  /\ activeTextEditor \in Editors
  /\ lastActiveUri = activeTextEditor
  /\ textChangeTimers = <<>>
  /\ disposables = {}
  /\ pc = "constructed"
  /\ clock = 0
  /\ timerQueue = {}
  /\ returned = <<>>
  /\ lastOp = [op |-> "new"]
  /\ pushed = <<>>
  /\ burst = [u \in Uris |-> NoBurst]
  /\ appended = 0
  /\ editsLeft = 0
  /\ ticksLeft = MaxCommandTicks
  /\ window = <<>>
  /\ host \in {h \in CommandHosts :
                 /\ h.failing \notin {"none", "gitStatus"} => h.git = "ready"
                 /\ ~ValidUrl(h.endpoint) => h.response.kind = "error"}
  /\ CommandIdle

NextCommand ==
  \/ start
  \/ onDidSaveTextDocument
  \/ dispose
  \/ Tick
  \/ invokeAssembleContext
  \/ assembleContextSettled
  \/ clipboardWritten
  \/ postJsonSettled

SpecCommand == InitCommand /\ [][NextCommand]_vars

\* ---- the assembleContext command

\* the command is past `await assembleContext(eventLog)`
AssemblySettled == cmdPc \in {"copied", "posting", "done"}
\* assembleContext returned a bundle
HasBundle == "version" \in DOMAIN bundle
\* the poll that fails in this run, if one does: a synchronous poll that throws,
\* or the git poll failing in the activation of the provider or after it
FailedPoll ==
  IF host.failing = "gitStatus"
    THEN (IF host.git = "missing" THEN "none" ELSE "gitStatus")
  ELSE IF host.failing = "none" /\ host.git = "activationFails" THEN "gitStatus"
  ELSE host.failing
\* the same host with every poll answering
Healthy == [host EXCEPT !.failing = "none"]

\* C15 (poll isolation): if any single ambient-state poll fails, including a
\* failure after the git provider has activated, assembleContext still returns a
\* bundle in which the failed poll's field is null or empty and every other
\* poll's field carries the value that poll returns.
C15_PollIsolation ==
  AssemblySettled =>
    /\ HasBundle
    /\ bundle.state.activeEditor =
         IF FailedPoll = "activeEditor" THEN None
         ELSE pollActiveEditor(Healthy, activeTextEditor).value
    /\ bundle.state.openTabs =
         IF FailedPoll = "openTabs" THEN <<>> ELSE pollOpenTabs(Healthy).value
    /\ bundle.state.diagnostics =
         IF FailedPoll = "diagnostics" THEN <<>> ELSE pollDiagnostics(Healthy).value
    /\ bundle.state.breakpoints =
         IF FailedPoll = "breakpoints" THEN <<>> ELSE pollBreakpoints(Healthy).value
    /\ bundle.state.gitStatus =
         IF FailedPoll = "gitStatus" THEN None ELSE pollGitStatus(Healthy).value

\* ------------------------------------------------ the polls alone (SpecPoll)
InitPoll ==
  /\ \E n \in 0..MaxHostDiagnostics, maxDiagnostics \in 1..MaxDiagnosticsInContext :
       \E severities \in [1..n -> {"Error", "Warning", "Information"}] :
         host = [QuietHost EXCEPT !.diagnostics =
                                    [i \in 1..n |->
                                      [uri |-> "a.ts", severity |-> severities[i],
                                       message |-> "m", line |-> 0,
                                       source |-> "ts"]],
                                  !.maxDiagnosticsInContext = maxDiagnostics,
                                  !.tabs = HostTabs,
                                  !.breakpoints = HostBreakpoints,
                                  !.git = "ready"]
  /\ CommandIdle
  /\ returned = <<>>
  /\ lastOp = [op |-> "new"]
  /\ capacity = 1
  /\ buffer = NewArray(capacity)
  /\ head = 0
  /\ count = 0
  /\ pushed = <<>>
  /\ lastActiveUri = Null
  /\ textChangeTimers = <<>>
  /\ disposables = {}
  /\ pc = "constructed"
  /\ clock = 0
  /\ timerQueue = {}
  /\ activeTextEditor = Null
  /\ burst = [u \in Uris |-> NoBurst]
  /\ appended = 0
  /\ editsLeft = 0
  /\ ticksLeft = 0
  /\ window = <<>>

\* pollState() is called and settles
poll ==
  /\ lastOp.op = "new"
  /\ returned' = pollState(host, activeTextEditor)
  /\ lastOp' = [op |-> "pollState"]
  /\ UNCHANGED <<rbVars, pushed, elVars>>

NextPoll == poll

SpecPoll == InitPoll /\ [][NextPoll]_vars

\* ---- the diagnostics list
CountWhere(xs, P(_)) == Cardinality({i \in 1..Len(xs) : P(xs[i])})
IsError(d) == d.severity = "error"
IsWarning(d) == d.severity = "warning"
HostErrors == CountWhere(host.diagnostics, LAMBDA d : d.severity = "Error")
HostWarnings == CountWhere(host.diagnostics, LAMBDA d : d.severity = "Warning")

\* C16 (diagnostics cap): the diagnostics list of the polled state contains only
\* errors and warnings, never more than the configured maximum, and the errors
\* are taken before the warnings: a warning is in the list only when every error
\* of the host is.
C16_ErrorsFirst ==
  lastOp.op = "pollState" =>
    LET diagnostics == returned.value.diagnostics
        maxDiagnostics == host.maxDiagnosticsInContext
    IN  /\ \A i \in 1..Len(diagnostics) :
             IsError(diagnostics[i]) \/ IsWarning(diagnostics[i])
        /\ Len(diagnostics) <= maxDiagnostics
        /\ CountWhere(diagnostics, IsError) = Min(HostErrors, maxDiagnostics)
        /\ CountWhere(diagnostics, IsWarning) =
             Min(HostWarnings, maxDiagnostics - Min(HostErrors, maxDiagnostics))

\* --------------------------------------------- the formatter alone (SpecFormat)
\* list lengths looked at: none, one, and the two longest
Lengths(max) == {0, 1, max - 1, max}

BundleEvents ==
  {[kind |-> "file_save", timestamp |-> t, uri |-> "a.ts",
    languageId |-> "typescript"] : t \in {0, 500}}
  \cup {[kind |-> "file_switch", timestamp |-> t, fromUri |-> Null, toUri |-> "a.ts",
         toLanguageId |-> "typescript"] : t \in {500}}

AssembledAt == 1000
RenderTimes == {1000, 1400, 2000}

\* a bundle as assembleContext builds them: time-ordered events no younger than
\* the bundle, their phase, the dirty tabs among the open ones
InitFormat ==
  /\ \E nErrors \in Lengths(MaxBundleErrors), nWarnings \in Lengths(MaxBundleWarnings),
        nTabs \in Lengths(MaxBundleTabs),
        nBreakpoints \in Lengths(MaxBundleBreakpoints),
        nEvents \in 0..MaxBundleEvents, editor \in BOOLEAN, git \in BOOLEAN :
       \E events \in [1..nEvents -> BundleEvents] :
         LET diagnostics(severity, n) ==
               [i \in 1..n |-> [uri |-> "a.ts", severity |-> severity,
                                message |-> "m", line |-> i, source |-> "ts"]]
             openTabs ==
               [i \in 1..nTabs |-> [uri |-> <<"tab", i>>, label |-> <<"tab", i>>,
                                    isDirty |-> i = 1, isActive |-> i = 1,
                                    isPinned |-> FALSE]]
             breakpoints ==
               [i \in 1..nBreakpoints |->
                 [uri |-> "a.ts", line |-> i, enabled |-> i # 1,
                  condition |-> IF i = 1 THEN "x > 1" ELSE ""]]
             activeEditor ==
               [uri |-> "a.ts", languageId |-> "typescript", cursorLine |-> 5,
                cursorColumn |-> 1, selectionText |-> "const x = 1;",
                selectionStartLine |-> 5, selectionEndLine |-> 7,
                visibleRangeStart |-> 1, visibleRangeEnd |-> 10, lineCount |-> 10,
                isDirty |-> TRUE]
             selection ==
               [uri |-> "a.ts", startLine |-> 5, endLine |-> 7,
                snippet |-> "const x = 1;", languageId |-> "typescript"]
             gitStatus ==
               [branch |-> "main", ahead |-> 1, behind |-> 0, staged |-> <<"a.ts">>,
                modified |-> <<"b.ts", "c.ts">>, untracked |-> <<"c.ts">>]
         IN  /\ \A i \in 1..(nEvents - 1) :
                  events[i].timestamp <= events[i + 1].timestamp
             /\ bundle =
                  [version |-> 1,
                   timestamp |-> AssembledAt,
                   eventLog |-> events,
                   state |->
                     [activeEditor |-> IF editor THEN activeEditor ELSE None,
                      openTabs |-> openTabs,
                      dirtyFiles |-> dirtyUris(openTabs),
                      diagnostics |-> diagnostics("warning", nWarnings)
                                      \o diagnostics("error", nErrors),
                      breakpoints |-> breakpoints,
                      gitStatus |-> IF git THEN gitStatus ELSE None,
                      workspaceFolders |-> <<"/work">>],
                   phase |-> detectPhase(events),
                   selection |-> IF editor THEN selection ELSE None]
  /\ host = QuietHost
  /\ cmdPc = "idle"
  /\ formatted = <<>>
  /\ clipboard = <<>>
  /\ shown = <<>>
  /\ requests = <<>>
  /\ output = <<>>
  /\ returned = <<>>
  /\ lastOp = [op |-> "new"]
  /\ capacity = 1
  /\ buffer = NewArray(capacity)
  /\ head = 0
  /\ count = 0
  /\ pushed = <<>>
  /\ lastActiveUri = Null
  /\ textChangeTimers = <<>>
  /\ disposables = {}
  /\ pc = "constructed"
  /\ clock = AssembledAt
  /\ timerQueue = {}
  /\ activeTextEditor = Null
  /\ burst = [u \in Uris |-> NoBurst]
  /\ appended = 0
  /\ editsLeft = 0
  /\ ticksLeft = 0
  /\ window = <<>>

\* formatBundleForLLM(bundle) is called when the clock has come to `now`; the
\* time of the render before it is remembered
render ==
  /\ \E now \in RenderTimes :
       /\ now >= clock
       /\ clock' = now
       /\ formatted' = formatBundleForLLM(bundle, now)
       /\ lastOp' = [op |-> "formatBundleForLLM", now |-> now,
                     previous |-> IF lastOp.op = "formatBundleForLLM"
                                    THEN lastOp.now ELSE -1]
  /\ UNCHANGED <<rbVars, returned, pushed, lastActiveUri, textChangeTimers,
                 disposables, pc, timerQueue, activeTextEditor, burst, appended,
                 editsLeft, ticksLeft, window, host, cmdPc, bundle, clipboard, shown,
                 requests, output>>

NextFormat == render

SpecFormat == InitFormat /\ [][NextFormat]_vars

\* ---- the formatted text
Rendered == lastOp.op = "formatBundleForLLM"
LinesOf(text, tag) == {i \in 1..Len(text) : text[i].line = tag}
HeaderOf(text, tag) == text[CHOOSE i \in LinesOf(text, tag) : TRUE]
BundleErrors == CountWhere(bundle.state.diagnostics, IsError)
BundleWarnings == CountWhere(bundle.state.diagnostics, IsWarning)

\* C17 (formatter caps): the formatted text has at most 10 error lines, 5 warning
\* lines, 15 tab lines and 10 breakpoint lines (each section prints its first
\* entries up to the cap), while the header of each section reports the total of
\* the bundle, not the number of lines printed.
C17_Caps ==
  Rendered =>
    /\ Cardinality(LinesOf(formatted, "ERROR")) = Min(10, BundleErrors)
    /\ Cardinality(LinesOf(formatted, "WARN")) = Min(5, BundleWarnings)
    /\ Cardinality(LinesOf(formatted, "tab")) = Min(15, Len(bundle.state.openTabs))
    /\ Cardinality(LinesOf(formatted, "breakpoint"))
         = Min(10, Len(bundle.state.breakpoints))
    /\ BundleErrors + BundleWarnings > 0 =>
         /\ HeaderOf(formatted, "diagnostics").errors = BundleErrors
         /\ HeaderOf(formatted, "diagnostics").warnings = BundleWarnings
    /\ Len(bundle.state.openTabs) > 0 =>
         HeaderOf(formatted, "open tabs").n = Len(bundle.state.openTabs)
    /\ Len(bundle.state.breakpoints) > 0 =>
         HeaderOf(formatted, "breakpoints").n = Len(bundle.state.breakpoints)

\* every list of the bundle is longer than its cap, and the text is cut
C17_Witness ==
  /\ Rendered
  /\ BundleErrors = 11 /\ Cardinality(LinesOf(formatted, "ERROR")) = 10
  /\ BundleWarnings = 6 /\ Cardinality(LinesOf(formatted, "WARN")) = 5
  /\ Len(bundle.state.openTabs) = 16 /\ Cardinality(LinesOf(formatted, "tab")) = 15
  /\ Len(bundle.state.breakpoints) = 11
  /\ Cardinality(LinesOf(formatted, "breakpoint")) = 10
  /\ HeaderOf(formatted, "diagnostics").errors = 11
  /\ HeaderOf(formatted, "open tabs").n = 16

\* the line of the k-th event of the bundle: the narrative ends the text
EventLine(text, k) == text[Len(text) - Len(bundle.eventLog) + k]
\* two texts that differ at most in the ages of their event lines
SameButAges(t1, t2) ==
  /\ Len(t1) = Len(t2)
  /\ \A i \in 1..Len(t1) :
       IF t1[i].line = "event"
         THEN t2[i].line = "event" /\ [t2[i] EXCEPT !.ago = t1[i].ago] = t1[i]
         ELSE t2[i] = t1[i]
\* each event line carries the event's age at `now`, to the nearest second
AgesAt(text, now) ==
  \A k \in 1..Len(bundle.eventLog) :
    LET age == now - bundle.eventLog[k].timestamp
        ago == EventLine(text, k).ago
    IN  /\ EventLine(text, k).line = "event"
        /\ 1000 * ago - 500 <= age
        /\ age < 1000 * ago + 500

Accepted ==
  /\ ValidUrl(host.endpoint)
  /\ host.response.kind = "response"
  /\ host.response.statusCode \in 200..299
SentMessage == "Context bundle sent to endpoint and copied to clipboard"
CopiedMessage == "Context bundle copied to clipboard"
SendFailedMessage == "Endpoint send failed"
AssemblyFailedMessage == "Context assembly failed"
LastShown == shown[Len(shown)]

\* what holds of the clipboard, the requests and the notifications in every state
CopiedAndReported ==
  /\ (AssemblySettled /\ HasBundle) =>
       /\ Len(formatted) > 0
       /\ clipboard = formatted
  /\ requests # <<>> =>
       /\ AssemblySettled /\ HasBundle /\ cmdPc \in {"posting", "done"}
       /\ requests = <<[endpoint |-> host.endpoint, data |-> bundle]>>
  /\ cmdPc = "done" =>
       /\ Len(shown) = 1
       /\ IF ~HasBundle
            THEN LastShown.level = "error" /\ LastShown.message = AssemblyFailedMessage
          ELSE IF host.endpoint = ""
            THEN LastShown = [level |-> "information", message |-> CopiedMessage]
          ELSE IF Accepted
            THEN LastShown = [level |-> "information", message |-> SentMessage]
          ELSE /\ LastShown.level = "error"
               /\ LastShown.message = SendFailedMessage
               /\ LastShown.message \notin {SentMessage, CopiedMessage,
                                            AssemblyFailedMessage}

\* what holds of every step: a request leaves only with the text on the
\* clipboard, and neither the clipboard nor the bundle changes afterwards
CopiedFirst ==
  /\ requests' # requests => (clipboard = formatted /\ Len(formatted) > 0)
  /\ (AssemblySettled /\ HasBundle) => (clipboard' = clipboard /\ bundle' = bundle)

\* C19 (clipboard before delivery): whenever assembly succeeds the formatted
\* bundle is on the clipboard before a request to the endpoint leaves, and it
\* stays there whatever becomes of the POST; the command ends with exactly one
\* notification, and a delivery that fails (a non-2xx answer, a transport error,
\* an endpoint that is no URL) ends with the error "Endpoint send failed", which
\* is neither the success message nor the assembly-failure message.
C19_ClipboardThenDelivery == []CopiedAndReported /\ [][CopiedFirst]_vars

\* the bundle was copied and posted, and the server answered 500
C19_Witness ==
  /\ cmdPc = "done"
  /\ HasBundle
  /\ Len(requests) = 1
  /\ host.response.kind = "response" /\ host.response.statusCode = 500
  /\ clipboard = formatted
  /\ Len(bundle.eventLog) > 0
  /\ LastShown.message = SendFailedMessage

\* ------------------------------- construction from the settings (SpecConfig)
\* host: what the user wrote for ctxbridge.eventBufferSize
Integer(n) == [type |-> "number", whole |-> TRUE, value |-> n]
\* nothing, the string "abc", the number 1.5, and the whole numbers from -1
BufferSizeSettings ==
  {[type |-> "undefined"],
   [type |-> "string", text |-> "abc"],
   [type |-> "number", whole |-> FALSE, value |-> 1]}
  \cup {Integer(n) : n \in -1..MaxLogCapacity}

\* config.get<number>(key, defaultValue): the default only when nothing is set
configGet(setting, defaultValue) ==
  IF setting.type = "undefined" THEN Integer(defaultValue) ELSE setting

\* new RingBuffer(capacity): new Array(capacity) throws a RangeError for a number
\* that is no array length and makes a one-element array of anything that is not
\* a number; the capacity is kept as given, NaN in arithmetic when not a number
newRingBuffer(cap) ==
  IF cap.type = "number"
    THEN IF cap.whole /\ cap.value >= 0
           THEN Return([buffer |-> NewArray(cap.value), capacity |-> cap.value])
           ELSE Throw("RangeError: Invalid array length")
    ELSE Return([buffer |-> (0 :> cap.text), capacity |-> NaN])

\* new EventLog(): the buffer of the configured size, lastActiveUri seeded; when
\* the RingBuffer constructor throws there is no log
InitConfig ==
  /\ \E setting \in BufferSizeSettings :
       /\ host = [QuietHost EXCEPT !.eventBufferSize = setting]
       /\ LET bufferSize == configGet(setting, DEFAULT_BUFFER_SIZE)
              ring == newRingBuffer(bufferSize)
          IN  IF ring.completion = "return"
                THEN /\ buffer = ring.value.buffer
                     /\ capacity = ring.value.capacity
                     /\ pc = "constructed"
                ELSE /\ buffer = <<>>
                     /\ capacity = NaN
                     /\ pc = "failed"
  /\ head = 0
  /\ count = 0
  /\ activeTextEditor \in Editors
  /\ lastActiveUri = IF pc = "failed" THEN Null ELSE activeTextEditor
  /\ textChangeTimers = <<>>
  /\ disposables = {}
  /\ clock = 0
  /\ timerQueue = {}
  /\ returned = <<>>
  /\ lastOp = [op |-> "new"]
  /\ pushed = <<>>
  /\ burst = [u \in Uris |-> NoBurst]
  /\ appended = 0
  /\ editsLeft = 0
  /\ ticksLeft = MaxLogTicks
  /\ window = <<>>
  /\ CommandIdle

NextConfig ==
  \/ start
  \/ onDidSaveTextDocument
  \/ onDidStartDebugSession
  \/ dispose
  \/ Tick

SpecConfig == InitConfig /\ [][NextConfig]_vars

\* ---- malformed capacity
Malformed(setting) ==
  \/ setting.type = "string"
  \/ setting.type = "number" /\ (~setting.whole \/ setting.value <= 0)
RECURSIVE InOrder(_)
InOrder(evts) ==
  Len(evts) < 2 \/ (evts[1].timestamp <= evts[2].timestamp /\ InOrder(Tail(evts)))

\* C20 (malformed capacity): when the configured ring-buffer capacity is
\* non-numeric, zero, negative or fractional, the construction of the EventLog
\* does not fail and the log behaves as a buffer of the default capacity 200:
\* it holds the events appended so far, up to 200, in insertion order.
C20_DefaultCapacity ==
  Malformed(host.eventBufferSize) =>
    /\ pc # "failed"
    /\ capacity = DEFAULT_BUFFER_SIZE
    /\ size = Min(appended, DEFAULT_BUFFER_SIZE)
    /\ size <= capacity
    /\ Len(all) = size
    /\ InOrder(all)

\* ------------------------ extension: the ctxbridge.showContextJson command
\* the properties of an object other than the named ones
omit(object, keys) == [k \in DOMAIN object \ keys |-> object[k]]

\* JSON.stringify(bundle, null, 2): the document holds a member for every
\* property of every object but those whose value is undefined
\* (selection, exitCode of an event, condition of a breakpoint); null is kept
JSON_stringify(b) ==
  LET member(object, key) ==
        IF object[key] = undefined \/ object[key] = None
          THEN omit(object, {key}) ELSE object
      event(e) == IF e.kind = "terminal_command_end" THEN member(e, "exitCode") ELSE e
      document ==
        [b EXCEPT !.eventLog = [i \in DOMAIN b.eventLog |-> event(b.eventLog[i])],
                  !.state.breakpoints =
                     [i \in DOMAIN b.state.breakpoints |->
                        member(b.state.breakpoints[i], "condition")]]
  IN  member(document, "selection")

\* JSON.parse(json): an object with exactly the members of the document
JSON_parse(json) == json

\* the command is invoked: assembleContext(eventLog) runs up to its await
showContextJson ==
  /\ cmdPc = "idle"
  /\ bundle' = assembleContext_poll(host, activeTextEditor, clock)
  /\ cmdPc' = "assembling"
  /\ lastOp' = [op |-> "showContextJson"]
  /\ UNCHANGED <<rbVars, returned, pushed, lastActiveUri, textChangeTimers,
                 disposables, pc, clock, timerQueue, activeTextEditor, burst,
                 appended, editsLeft, ticksLeft, window, host, formatted, clipboard,
                 shown, requests, output>>

\* assembleContext settles: the bundle is serialized and shown as a json
\* document; a rejection is reported
showContextJsonSettled ==
  /\ cmdPc = "assembling"
  /\ LET result == assembleContext_resume(bundle, host, activeTextEditor, clock)
     IN  IF result.status = "fulfilled"
           THEN /\ bundle' = result.value
                /\ shown' = Append(shown, [level |-> "document", language |-> "json",
                                           content |-> JSON_stringify(result.value)])
           ELSE /\ bundle' = result
                /\ showErrorMessage("Context assembly failed", result.reason)
  /\ cmdPc' = "done"
  /\ lastOp' = [op |-> "showContextJsonSettled"]
  /\ UNCHANGED <<rbVars, returned, pushed, lastActiveUri, textChangeTimers,
                 disposables, pc, clock, timerQueue, activeTextEditor, burst,
                 appended, editsLeft, ticksLeft, window, host, formatted, clipboard,
                 requests, output>>

\* a command of the terminal ends; the shell integration reports its exit code
\* or, when it does not know it, undefined
onDidEndTerminalShellExecution_exitCode ==
  /\ Raised
  /\ \E exitCode \in {Integer(0), undefined} :
       immediate("onDidEndTerminalShellExecution",
                 [kind |-> "terminal_command_end", timestamp |-> clock,
                  commandLine |-> NpmTest, terminalName |-> "bash",
                  exitCode |-> exitCode])

\* an editor with or without a selection, source breakpoints with and without a
\* condition, a git provider that is ready or missing
InitJson ==
  /\ capacity = MaxLogCapacity
  /\ buffer = NewArray(capacity)
  /\ head = 0
  /\ count = 0
  /\ activeTextEditor \in Editors
  /\ lastActiveUri = activeTextEditor
  /\ textChangeTimers = <<>>
  /\ disposables = {}
  /\ pc = "constructed"
  /\ clock = 0
  /\ timerQueue = {}
  /\ returned = <<>>
  /\ lastOp = [op |-> "new"]
  /\ pushed = <<>>
  /\ burst = [u \in Uris |-> NoBurst]
  /\ appended = 0
  /\ editsLeft = 0
  /\ ticksLeft = MaxCommandTicks
  /\ window = <<>>
  /\ \E s \in BOOLEAN, g \in {"missing", "ready"},
        conditions \in {<<>>, <<undefined>>,
                        <<[type |-> "string", text |-> "x > 1"]>>,
                        <<undefined, [type |-> "string", text |-> "x > 1"]>>} :
       host = [QuietHost EXCEPT
                 !.selectionEmpty = s, !.git = g, !.tabs = HostTabs,
                 !.breakpoints = [i \in DOMAIN conditions |->
                                    [isSource |-> TRUE, uri |-> "a.ts", line |-> 4,
                                     enabled |-> TRUE, condition |-> conditions[i]]]]
  /\ CommandIdle

NextJson ==
  \/ start
  \/ onDidSaveTextDocument
  \/ onDidEndTerminalShellExecution_exitCode
  \/ Tick
  \/ showContextJson
  \/ showContextJsonSettled

SpecJson == InitJson /\ [][NextJson]_vars

\* C21: the bundle read back from the json document that showContextJson shows
\* equals the assembled bundle field for field, also without a selection, with
\* an unknown exit code and with a breakpoint that has no condition
C21_RoundTrip ==
  \A i \in DOMAIN shown :
    shown[i].level = "document" => JSON_parse(shown[i].content) = bundle

\* the same for the bundles in which no property is undefined
C21_RoundTripDefined ==
  \A i \in DOMAIN shown :
    (/\ shown[i].level = "document"
     /\ bundle.selection # None
     /\ \A j \in DOMAIN bundle.eventLog :
          bundle.eventLog[j].kind = "terminal_command_end"
            => bundle.eventLog[j].exitCode # undefined
     /\ \A j \in DOMAIN bundle.state.breakpoints :
          bundle.state.breakpoints[j].condition # undefined)
      => JSON_parse(shown[i].content) = bundle

C21_DefinedShown ==
  /\ cmdPc = "done"
  /\ "version" \in DOMAIN bundle
  /\ bundle.selection # None
  /\ Len(bundle.eventLog) = 2
  /\ Len(bundle.state.breakpoints) = 1
  /\ C21_RoundTripDefined
  /\ \A j \in DOMAIN bundle.eventLog :
          bundle.eventLog[j].kind = "terminal_command_end"
          /\ bundle.eventLog[j].exitCode # undefined
  /\ \A j \in DOMAIN bundle.state.breakpoints :
          bundle.state.breakpoints[j].condition # undefined

\* ---- the debounce timers

\* the timers the map of the log holds
MapTimers == {textChangeTimers[u] : u \in DOMAIN textChangeTimers}

\* C22: in every state the timer map holds exactly the pending timers, one at
\* most per resource and under the resource it belongs to; an edit to a resource
\* leaves its old timer cancelled and one new timer armed, a timer that runs
\* was pending and in the map, removes its own entry and appends one record for
\* its burst, and a record is appended for a burst only once.
C22_Pending ==
  /\ MapTimers = timerQueue
  /\ \A u \in DOMAIN textChangeTimers : textChangeTimers[u].uri = u
  /\ \A s, t \in timerQueue : s.uri = t.uri => s = t

C22_Step ==
  /\ IsEdit(lastOp') =>
       \E u \in Uris :
         /\ burst'[u].n = burst[u].n + 1
         /\ PendingFor(u)' = {textChangeTimers'[u]}
         /\ textChangeTimers'[u].due = clock + TEXT_CHANGE_DEBOUNCE_MS
         /\ \A v \in Uris \ {u} : PendingFor(v)' = PendingFor(v)
  /\ lastOp'.op = "textChangeTimeout" =>
       LET e == LastOf(all')
       IN /\ e.uri \in DOMAIN textChangeTimers
          /\ textChangeTimers[e.uri] \in timerQueue
          /\ e.uri \notin DOMAIN textChangeTimers'
          /\ timerQueue' = timerQueue \ {textChangeTimers[e.uri]}
          /\ burst[e.uri].n >= 1 /\ burst'[e.uri].n = 0
          /\ appended' = appended + 1

C22_Timers == []C22_Pending /\ [][C22_Step]_vars

\* two resources have a pending timer each, after a second edit to one of them
C22_Witness ==
  /\ IsEdit(lastOp)
  /\ DOMAIN textChangeTimers = Uris
  /\ \E u \in Uris : burst[u].n = 2
  /\ Cardinality(timerQueue) = 2

\* the entry of the timer map for a resource
StoredFor(uri) == Restrict(textChangeTimers, DOMAIN textChangeTimers \cap {uri})

\* C23 as stated: an edit to one resource leaves the pending timer of every
\* other resource as it is, and the text_change of each resource is appended
\* 2000 ms after the last edit to that resource.
C23_StepExact ==
  /\ IsEdit(lastOp') =>
       \E u \in Uris :
         /\ burst'[u].n = burst[u].n + 1
         /\ \A v \in Uris \ {u} : PendingFor(v)' = PendingFor(v) /\ burst'[v] = burst[v]
  /\ lastOp'.op = "textChangeTimeout" =>
       LET e == LastOf(all')
       IN /\ e.kind = "text_change"
          /\ e.timestamp = burst[e.uri].last + TEXT_CHANGE_DEBOUNCE_MS
          /\ \A v \in Uris \ {e.uri} : PendingFor(v)' = PendingFor(v) /\ burst'[v] = burst[v]

C23_ExactDelay == [][C23_StepExact]_vars

\* C23 amended: an edit to one resource neither cancels nor re-arms the pending
\* timer of another resource, whose due time stays 2000 ms after its own last
\* edit; while the recorder is not disposed every resource with edits has its
\* own pending timer, and each timer that runs appends exactly one text_change
\* for its own resource, 2000 ms after the last edit to that resource or later,
\* and leaves the timers of the other resources pending.
C23_Step ==
  /\ IsEdit(lastOp') =>
       \E u \in Uris :
         /\ burst'[u].n = burst[u].n + 1
         /\ \A v \in Uris \ {u} :
              /\ PendingFor(v)' = PendingFor(v)
              /\ burst'[v] = burst[v]
              /\ StoredFor(v)' = StoredFor(v)
  /\ lastOp'.op = "textChangeTimeout" =>
       LET e == LastOf(all')
       IN /\ e.kind = "text_change"
          /\ e.timestamp >= burst[e.uri].last + TEXT_CHANGE_DEBOUNCE_MS
          /\ appended' = appended + 1
          /\ burst[e.uri].n >= 1 /\ burst'[e.uri].n = 0
          /\ \A v \in Uris \ {e.uri} :
               /\ PendingFor(v)' = PendingFor(v)
               /\ burst'[v] = burst[v]
               /\ StoredFor(v)' = StoredFor(v)

C23_OwnTimer ==
  pc = "started" =>
    \A u \in Uris :
      burst[u].n > 0 =>
        \E t \in timerQueue :
          /\ PendingFor(u) = {t}
          /\ t.due = burst[u].last + TEXT_CHANGE_DEBOUNCE_MS

C23_Independent == []C23_OwnTimer /\ [][C23_Step]_vars

\* the timer of one resource runs while a second resource, edited twice and
\* last edited after the first one, still has its own timer pending
C23_Witness ==
  /\ lastOp.op = "textChangeTimeout"
  /\ pc = "started"
  /\ \E u \in Uris \ {LastOf(all).uri} :
       /\ burst[u].n = 2
       /\ burst[u].last > LastOf(all).timestamp - TEXT_CHANGE_DEBOUNCE_MS
       /\ Cardinality(PendingFor(u)) = 1

\* ---- the handlers that append at once

\* the kind of event each of the seven notifications stands for
KindOf ==
  [onDidSaveTextDocument |-> "file_save",
   onDidStartDebugSession |-> "debug_start",
   onDidTerminateDebugSession |-> "debug_stop",
   onDidChangeDiagnostics |-> "diagnostic_change",
   onDidStartTerminalShellExecution |-> "terminal_command_start",
   onDidEndTerminalShellExecution |-> "terminal_command_end",
   onDidChangeBreakpoints |-> "breakpoint_change"]

\* the buffer after one more push of e: e last, the oldest event gone when full
Pushed(events, e) ==
  IF Len(events) < capacity THEN Append(events, e)
  ELSE SubSeq(events, 2, Len(events)) \o <<e>>

\* C24: each of the seven notifications delivered to its handler appends
\* exactly one event of its kind, stamped at the time of the notification, as
\* the newest event of the log, whatever the log holds; and an event of one of
\* these kinds is appended by nothing but a notification of that kind.
C24_Step ==
  /\ (lastOp'.op \in DOMAIN KindOf /\ lastOp'.delivered) =>
       LET e == LastOf(all')
       IN /\ appended' = appended + 1
          /\ e.kind = KindOf[lastOp'.op]
          /\ e.timestamp = clock
          /\ all' = Pushed(all, e)
  /\ (appended' # appended /\ LastOf(all').kind \in {KindOf[n] : n \in DOMAIN KindOf}) =>
       /\ lastOp'.op \in DOMAIN KindOf
       /\ lastOp'.delivered
       /\ KindOf[lastOp'.op] = LastOf(all').kind
       /\ appended' = appended + 1

C24_OnePerNotification == [][C24_Step]_vars

\* a second notification of the same kind right after the first: both events
\* are in the log, in order
C24_Witness ==
  /\ lastOp.op = "onDidChangeDiagnostics"
  /\ lastOp.delivered
  /\ appended = 3
  /\ Len(all) = 2
  /\ all[1].kind = "diagnostic_change"
  /\ all[2].kind = "diagnostic_change"
  /\ all[1].timestamp < all[2].timestamp

\* ---- the read operations and the arrays they return (SpecRead)

\* a read that hands out the array the buffer stores its items in
newResult_shared == "this.buffer"

\* toArray(): the array returned is the literal [] or the local result, filled by
\* result.push; since() returns what filter() builds from it
newResult == "result"

\* EventLog.all() and EventLog.snapshot(windowMs) at Date.now() = now
EventLog_all ==
  /\ returned' = all
  /\ lastOp' = [op |-> "all", array |-> newResult]
  /\ UNCHANGED <<rbVars, pushed, elVars>>

EventLog_snapshot ==
  /\ \E ms \in RBWindows, now \in RBNows :
       /\ returned' = snapshot(ms, now)
       /\ lastOp' = [op |-> "snapshot", ms |-> ms, now |-> now, array |-> "filtered"]
  /\ UNCHANGED <<rbVars, pushed, elVars>>

RingBuffer_toArray ==
  /\ returned' = toArray
  /\ lastOp' = [op |-> "toArray", array |-> newResult]
  /\ UNCHANGED <<rbVars, pushed, elVars>>

RingBuffer_since ==
  /\ \E ms \in RBWindows, now \in RBNows :
       /\ returned' = since(ms, now)
       /\ lastOp' = [op |-> "since", ms |-> ms, now |-> now, array |-> "filtered"]
  /\ UNCHANGED <<rbVars, pushed, elVars>>

IsRead(op) == op.op \in {"toArray", "since", "all", "snapshot"}

\* the caller writes to the array it was handed: returned[0] = item, or
\* returned.length = 0; the write lands in the buffer when the array is the
\* buffer's own
mutateReturned ==
  /\ IsRead(lastOp)
  /\ \E write \in {"store", "truncate"} :
       LET item == [kind |-> "item", timestamp |-> 3000, value |-> 0]
       IN /\ returned' = IF write = "truncate" THEN <<>>
                         ELSE IF returned = <<>> THEN <<item>>
                         ELSE [returned EXCEPT ![1] = item]
          /\ buffer' = IF lastOp.array # "this.buffer" THEN buffer
                       ELSE IF write = "truncate" THEN NewArray(capacity)
                       ELSE Store(buffer, 0, item)
          /\ lastOp' = [op |-> "mutateReturned", write |-> write, read |-> lastOp.op]
  /\ UNCHANGED <<head, count, capacity, pushed, elVars>>

NextRead ==
  \/ RB_push
  \/ RB_clear
  \/ RingBuffer_toArray
  \/ RingBuffer_since
  \/ EventLog_all
  \/ EventLog_snapshot
  \/ mutateReturned

SpecRead == InitRB /\ [][NextRead]_vars

\* C25: toArray(), since(), snapshot() and all() leave the stored items, the
\* write cursor and the count as they are, and a write of the caller to the
\* array one of them returned changes nothing any of them returns afterwards.
C25_Step ==
  /\ IsRead(lastOp') => UNCHANGED <<buffer, head, count, capacity>>
  /\ lastOp'.op = "mutateReturned" =>
       /\ UNCHANGED <<buffer, head, count, capacity>>
       /\ toArray' = toArray
       /\ all' = all
       /\ \A ms \in RBWindows, now \in RBNows :
            /\ since(ms, now)' = since(ms, now)
            /\ snapshot(ms, now)' = snapshot(ms, now)

C25_ReadsAreFresh == [][C25_Step]_vars

\* the caller overwrote the first element of the array toArray() returned from
\* a full buffer: the array differs from what the buffer holds
C25_Witness ==
  /\ lastOp.op = "mutateReturned"
  /\ lastOp.write = "store"
  /\ lastOp.read = "toArray"
  /\ count = capacity
  /\ Len(returned) = count
  /\ returned # toArray

\* ------------------- assembleContext over a live recorder (SpecAssemble)
\* host: the selection of the active editor changes
onDidChangeTextEditorSelection ==
  /\ host' = [host EXCEPT !.selectionEmpty = ~@]
  /\ lastOp' = [op |-> "onDidChangeTextEditorSelection"]
  /\ UNCHANGED <<rbVars, returned, pushed, lastActiveUri, textChangeTimers,
                 disposables, pc, clock, timerQueue, activeTextEditor, burst,
                 appended, editsLeft, ticksLeft, window, cmdPc, bundle, formatted,
                 clipboard, shown, requests, output>>

\* while assembleContext is suspended in `await pollState()` the host delivers
\* notifications and timers only if the await takes a turn of the event loop:
\* when pollGitStatus() awaits the activation of the git provider
HostRuns == cmdPc = "assembling" => host.git \in {"activating", "activationFails"}

\* no editor or an editor, with or without a selection; the git provider is
\* missing, active already, or present and activated by the poll
InitAssemble ==
  /\ capacity = MaxCapacity
  /\ buffer = NewArray(capacity)
  /\ head = 0
  /\ count = 0
  /\ activeTextEditor \in Editors
  /\ lastActiveUri = activeTextEditor
  /\ textChangeTimers = <<>>
  /\ disposables = {}
  /\ pc = "constructed"
  /\ clock = 0
  /\ timerQueue = {}
  /\ returned = <<>>
  /\ lastOp = [op |-> "new"]
  /\ pushed = <<>>
  /\ burst = [u \in Uris |-> NoBurst]
  /\ appended = 0
  /\ editsLeft = 0
  /\ ticksLeft = MaxCommandTicks
  /\ window = <<>>
  /\ \E s \in BOOLEAN, g \in {"missing", "ready", "activating"} :
       host = [QuietHost EXCEPT !.selectionEmpty = s, !.git = g, !.tabs = HostTabs]
  /\ CommandIdle

NextAssemble ==
  \/ start
  \/ HostRuns /\ onDidChangeActiveTextEditor
  \/ HostRuns /\ onDidSaveTextDocument
  \/ HostRuns /\ onDidStartDebugSession
  \/ HostRuns /\ onDidChangeTextEditorSelection
  \/ HostRuns /\ Tick
  \/ invokeAssembleContext
  \/ assembleContextSettled

SpecAssemble == InitAssemble /\ [][NextAssemble]_vars

\* ---- the bundle and the log that changes during the await

\* the window of the log as a snapshot would read it now
WindowNow == snapshot(DEFAULT_EVENT_WINDOW_SECONDS * 1000, clock)

\* C26: the events of a bundle are the window read when assembleContext was
\* called, and the phase of the bundle is the phase detected from these events,
\* also when the recorder appended events during the await.
C26_PhaseOfEvents ==
  (AssemblySettled /\ HasBundle) => bundle.phase = detectPhase(bundle.eventLog)

C26_Step ==
  /\ (cmdPc = "idle" /\ cmdPc' = "assembling") => bundle'.events = WindowNow
  /\ (cmdPc = "assembling" /\ cmdPc' # "assembling" /\ HasBundle') =>
       bundle'.eventLog = bundle.events

C26_PhaseOfSnapshot == []C26_PhaseOfEvents /\ [][C26_Step]_vars

\* a bundle assembled while a save was recorded during the await: the log now
\* holds an event the bundle lacks and has another phase assessment
C26_Witness ==
  /\ cmdPc = "copied"
  /\ HasBundle
  /\ Len(WindowNow) > Len(bundle.eventLog)
  /\ detectPhase(WindowNow) # bundle.phase

\* C27: when assembleContext returns, the events of the bundle are exactly the
\* events of the log captured in the window that ends at the timestamp of the
\* bundle: none captured in [timestamp - window, timestamp] is missing and none
\* is older.
C27_Step ==
  (cmdPc = "assembling" /\ cmdPc' # "assembling" /\ HasBundle') =>
    LET b == bundle'
        windowMs == DEFAULT_EVENT_WINDOW_SECONDS * 1000
    IN  b.eventLog = SelectSeq(all', LAMBDA e : /\ e.timestamp >= b.timestamp - windowMs
                                                /\ e.timestamp <= b.timestamp)

C27_WindowAtTimestamp == [][C27_Step]_vars

\* ---- the chain of file switches

\* the positions of the file_switch events among the events
SwitchesIn(events) == {i \in 1..Len(events) : events[i].kind = "file_switch"}

\* C28: every file_switch pushed goes from the resource remembered as active to
\* another one, which becomes the remembered one; what is remembered is the
\* resource active at construction until the first file_switch and changes with
\* a file_switch only. So the file_switch events form a chain, whatever is
\* pushed in between: in the log each one starts where the one before it ended.
C28_Chained ==
  /\ pc = "constructed" => lastActiveUri = activeTextEditor
  /\ LET events == all
     IN  \A j \in SwitchesIn(events) :
           /\ events[j].fromUri # events[j].toUri
           /\ \A i \in SwitchesIn(events) :
                (i < j /\ \A k \in SwitchesIn(events) : ~(i < k /\ k < j))
                  => events[j].fromUri = events[i].toUri
           /\ (\A k \in SwitchesIn(events) : k <= j) => events[j].toUri = lastActiveUri

C28_Step ==
  /\ (appended' # appended /\ LastOf(all').kind = "file_switch") =>
       /\ LastOf(all').fromUri = lastActiveUri
       /\ LastOf(all').toUri = lastActiveUri'
       /\ lastActiveUri' # lastActiveUri
  /\ lastActiveUri' # lastActiveUri =>
       (appended' = appended + 1 /\ LastOf(all').kind = "file_switch")

C28_SwitchChain == []C28_Chained /\ [][C28_Step]_vars

\* two file switches with an event of another kind pushed between them
C28_Witness ==
  /\ Len(all) = 3
  /\ all[1].kind = "file_switch"
  /\ all[2].kind # "file_switch"
  /\ all[3].kind = "file_switch"
  /\ all[3].fromUri = all[1].toUri
  /\ all[1].fromUri # Null

\* ------------------------ the classifier on reordered windows (SpecPermute)
MaxPermuted == 4

\* a window of switches between four files, edits of two more, debug starts and
\* stops, and the window classified together with a reordering of it
InitPermute ==
  /\ LET events ==
           {[kind |-> "file_switch", timestamp |-> 0, fromUri |-> "b.ts",
             toUri |-> "c.ts", toLanguageId |-> "typescript"],
            [kind |-> "file_switch", timestamp |-> 0, fromUri |-> "d.ts",
             toUri |-> "e.ts", toLanguageId |-> "typescript"],
            [kind |-> "text_change", timestamp |-> 0, uri |-> "a.ts", changeCount |-> 1],
            [kind |-> "text_change", timestamp |-> 0, uri |-> "f.ts", changeCount |-> 1],
            [kind |-> "debug_start", timestamp |-> 0, sessionName |-> "Launch",
             sessionType |-> "node"],
            [kind |-> "debug_stop", timestamp |-> 0, sessionName |-> "Launch",
             sessionType |-> "node"]}
     IN  \E n \in 0..MaxPermuted : window \in [1..n -> events]
  /\ returned = <<>>
  /\ lastOp = [op |-> "new"]
  /\ capacity = 1
  /\ buffer = NewArray(capacity)
  /\ head = 0
  /\ count = 0
  /\ pushed = <<>>
  /\ lastActiveUri = Null
  /\ textChangeTimers = <<>>
  /\ disposables = {}
  /\ pc = "constructed"
  /\ clock = 0
  /\ timerQueue = {}
  /\ activeTextEditor = Null
  /\ burst = [u \in Uris |-> NoBurst]
  /\ appended = 0
  /\ editsLeft = 0
  /\ ticksLeft = 0
  /\ host = QuietHost
  /\ CommandIdle

\* detectPhase(window) and detectPhase of the same events in another order
classifyReordered ==
  /\ lastOp.op = "new"
  /\ \E p \in Permutations(DOMAIN window) :
       /\ returned' = [window |-> detectPhase(window),
                       reordered |-> detectPhase([i \in DOMAIN window |-> window[p[i]]])]
       /\ lastOp' = [op |-> "detectPhase", order |-> p]
  /\ UNCHANGED <<rbVars, pushed, elVars>>

NextPermute == classifyReordered

SpecPermute == InitPermute /\ [][NextPermute]_vars

ElementsOf(seq) == {seq[i] : i \in DOMAIN seq}

\* C29 as stated: a window and any reordering of it get the same phase, the
\* same confidence and the same set of files.
C29_SameFiles ==
  Classified =>
    /\ returned.window.phase = returned.reordered.phase
    /\ returned.window.confidence = returned.reordered.confidence
    /\ ElementsOf(returned.window.recentFiles) = ElementsOf(returned.reordered.recentFiles)

\* C29 amended: a window and any reordering of it get the same phase, the same
\* confidence and the same counts in the reasoning (debug starts and stops
\* count, wherever they stand); they get the same set of files when the window
\* names at most five distinct files, and five files each when it names more.
C29_OrderInsensitive ==
  Classified =>
    /\ returned.window.phase = returned.reordered.phase
    /\ returned.window.confidence = returned.reordered.confidence
    /\ returned.window.reasoning = returned.reordered.reasoning
    /\ Cardinality(Touched(window)) <= 5 =>
         ElementsOf(returned.window.recentFiles)
           = ElementsOf(returned.reordered.recentFiles)
    /\ Len(returned.window.recentFiles) = Len(returned.reordered.recentFiles)
    /\ Len(window) >= 3 =>
         Len(returned.window.recentFiles) = Min(5, Cardinality(Touched(window)))

\* a start after its stop and a start before it: debugging either way, and the
\* files of the two edits in another order
C29_Witness ==
  /\ Classified
  /\ Len(window) = 4
  /\ window[1].kind = "debug_stop"
  /\ window[2].kind = "debug_start"
  /\ window[3].kind = "debug_start"
  /\ window[4].kind = "text_change"
  /\ lastOp.order = <<3, 1, 4, 2>>
  /\ returned.window.phase = "debugging"
  /\ returned.reordered.phase = "debugging"

\* C30: the selection of a bundle is the selection of the editor the bundle
\* records as active: the same resource and the same 1-based line range.
C30_SelectionOfActiveEditor ==
  (AssemblySettled /\ HasBundle /\ bundle.selection # None) =>
    /\ bundle.state.activeEditor # None
    /\ bundle.selection.uri = bundle.state.activeEditor.uri
    /\ bundle.selection.startLine = bundle.state.activeEditor.selectionStartLine
    /\ bundle.selection.endLine = bundle.state.activeEditor.selectionEndLine

=============================================================================
